---- MODULE Spec2Model ----
(***************************************************************************)
(* Transcoding pipeline and streaming read path of the audiobook           *)
(* streaming service.                                                      *)
(*                                                                         *)
(* Spec       : the write path.  Intake worker (TranscodingWorker), Bull   *)
(*              bitrate jobs (BitrateTranscodingProcessor), the master     *)
(*              playlist job (MasterPlaylistProcessor), the queue event    *)
(*              listeners of BullQueueManager and the deletion worker.     *)
(* SpecStream : the read path.  HLSStreamingService in front of            *)
(*              StreamingCacheService, together with the deletion worker,  *)
(*              started from renditions the write path has produced.       *)
(* SpecIntake : the intake worker alone, in front of a database that may   *)
(*              fail to answer, with the retry branch of its catch block.  *)
(* SpecPartial: the write path for one request at 64k, 128k and 256k whose *)
(*              128k encoder run fails at every attempt; workers and event *)
(*              handlers keep running (weak fairness).                     *)
(* SpecVariant: variant playlists and segments while the Redis client may  *)
(*              stop answering.                                            *)
(* SpecRecommend: master playlists for every bandwidth and bitrate query   *)
(*              parameter over every set of completed renditions.          *)
(* SpecRequests: requests to the streaming router with and without a       *)
(*              user_id header (AuthMiddleware, then StreamingController). *)
(* SpecBroker : the reconnect logic of the RabbitMQ connection.            *)
(* SpecEnqueue: the intake worker over every set of completed renditions,  *)
(*              with requests that name an unsupported bitrate.            *)
(* SpecDeletion: intake and the deletion worker over every set of completed *)
(*              renditions.                                                *)
(* SpecMasterRace: a master playlist request whose row lookups interleave  *)
(*              with the deletion worker.                                  *)
(* SpecUnsupported: SpecPartial with a second request that names only an   *)
(*              unsupported bitrate.                                       *)
(* SpecLateDeletion: the write path when no intake message is consumed after *)
(*              a deletion message.                                        *)
(* SpecReconnect: publishers and the intake consumers across connection    *)
(*              losses and reconnects.                                     *)
(* SpecRouting: publishes with every priority, in front of the consumers.  *)
(* SpecCounters: cache reads that hit, miss or fail, and resets of the     *)
(*              counters.                                                  *)
(*                                                                         *)
(* The storage provider is the local one (STORAGE_PROVIDER defaults to     *)
(* 'local'): the encoder writes straight into the object store and paths   *)
(* are normalised by path.join.  A DB call pair findFirst/update of one    *)
(* updateTranscodingJob call is one step; calls that the code does not     *)
(* await, and the handlers of queue events, run later in any order.        *)
(***************************************************************************)
EXTENDS Integers, Sequences, FiniteSets, Bags, TLC

\* ---------------------------------------------------------------- bounds
MaxIntake == 2
\* bitrates requested over all intake messages
MaxRequested == 2
MaxDeletions == 1
MaxPending == 1
NumSegments == 2
MaxRequests == 4
\* ffmpeg failures and master-job timeouts
MaxFailures == 1
\* reconnect timers not yet run
MaxTimers == 3

\* ------------------------------------------------------ program constants
BULL_MAX_ATTEMPTS == 3
BitrateConcurrency == 2
MasterConcurrency == 1
\* retries of an intake message
MaxRetryCount == 3

Chapters == {"c1", "c2"}
\* the chapters whose source audio is in the store when the pipeline starts
SourceChapters == {"c1"}
Bitrates == {64, 128, 256}
RequestBitrates == {<<64>>, <<64, 128>>}
RequestPriorities == {"normal"}
\* the percentage an ffmpeg progress event reports
EncoderPercents == {50}
\* error messages are sequences of parts; the empty one is "no message"
NoError == <<>>
EncoderError == <<"ffmpeg exited with code 1">>
InputMissing == <<"Input file not found in storage at path: ">>
NoBitrateCompleted == <<"No bitrate transcoding jobs completed successfully">>
NoCompletedFound == <<"No completed transcoded chapters found">>
\* what a Prisma call throws while the database does not answer
DatabaseError == <<"Can't reach database server">>
\* transcodeSingleBitrate wraps whatever it catches
SingleBitrateFailed(msg) == <<"Single bitrate transcoding failed: ">> \o msg

VARIABLES
    iq,          \* intake messages in the broker (RabbitMQ)
    published,   \* number of intake messages published so far
    requested,   \* number of bitrates requested by them
    acked,       \* ids of the intake messages acked by the consumer
    tjobs,       \* TranscodingJob table per chapter: row count and latest row
    renditions,  \* TranscodedChapter rows
    bjobs,       \* Bull bitrate jobs, by job id <<chapter, bitrate, n>>
    mjobs,       \* Bull master playlist jobs, by job id <<chapter, n>>
    os,          \* keys present in the object store
    master,      \* content of bit_transcode/{c}/master.m3u8 when it is in os
    pending,     \* TranscodingJob updates issued but not yet applied
    deletions,   \* chapters of the ChapterDeletion messages processed
    failures,    \* number of ffmpeg failures and master-job timeouts
    cache,       \* Redis: key -> stored string
    stats,       \* StreamingCacheService.stats
    resp,        \* last response of the read path
    redisUp,     \* the Redis client answers
    rabbit,      \* fields and timers of the RabbitMQConnection singleton
    inflight     \* the master playlist request between its two DB reads

pipeVars == <<iq, published, requested, acked, tjobs, renditions, bjobs, mjobs, os, master, pending, deletions, failures>>
streamVars == <<cache, stats, resp, redisUp, rabbit, inflight>>
vars == <<iq, published, requested, acked, tjobs, renditions, bjobs, mjobs, os, master, pending, deletions, failures, cache, stats, resp, redisUp, rabbit, inflight>>

\* ------------------------------------------------------------ small helpers
RECURSIVE SeqToSet(_)
SeqToSet(s) == IF s = <<>> THEN {} ELSE {Head(s)} \cup SeqToSet(Tail(s))

RECURSIVE FilterSeq(_, _)
\* Array.prototype.filter with the predicate "element is in keep"
FilterSeq(s, keep) ==
    IF s = <<>> THEN <<>>
    ELSE IF Head(s) \in keep THEN <<Head(s)>> \o FilterSeq(Tail(s), keep)
         ELSE FilterSeq(Tail(s), keep)

Perms(S) == {p \in [1..Cardinality(S) -> S] : \A i, j \in 1..Cardinality(S) : i # j => p[i] # p[j]}

\* ------------------------------------------------------------ object store
\* i.toString().padStart(3, '0')
Pad3(i) == IF i < 10 THEN <<0, 0, i>>
           ELSE IF i < 100 THEN <<0, i \div 10, i % 10>>
           ELSE IF i < 1000 THEN <<i \div 100, (i \div 10) % 10, i % 10>>
           ELSE <<i>>

SegmentFile(i) == <<"segment_", Pad3(i), ".ts">>
PlaylistFile == <<"playlist.m3u8">>
\* chapter.filePath
SourcePath(c) == <<<<"uploads", c, 0>>, <<"audio.mp3">>>>
\* bit_transcode/{chapterId}/{bitrate}k/
SegmentsPath(c, b) == <<"bit_transcode", c, b>>
PlaylistUrl(c, b) == <<SegmentsPath(c, b), PlaylistFile>>
\* bit_transcode/{chapterId}/master.m3u8
MasterPath(c) == <<<<"bit_transcode", c, 0>>, <<"master.m3u8">>>>
ArtifactKey(c, b, name) == <<SegmentsPath(c, b), name>>

SegmentKeys(c, b, n) == {ArtifactKey(c, b, SegmentFile(i)) : i \in 0..(n - 1)}
\* a run whose segments do not reach the store
PlaylistOnlyOutput(c, b) == {PlaylistUrl(c, b)}

\* what a finished ffmpeg run leaves under storage/bit_transcode/{c}/{b}k/
EncoderOutput(c, b) == {PlaylistUrl(c, b)} \cup SegmentKeys(c, b, NumSegments)
\* what a failed run may leave behind: the first k segments
PartialOutput(c, b, k) == SegmentKeys(c, b, k)

\* ------------------------------------------------------- TranscodingJob rows
\* Every read of the table is findFirst({chapterId}, orderBy createdAt desc)
\* and every write is a create or an update of the row just found, so the
\* table of a chapter is kept as the number of its rows and the latest row.
NoRow ==
    [status |-> "none", progress |-> 0, startedAt |-> FALSE,
     completedAt |-> FALSE, errorMessage |-> NoError]

NoTable == [rows |-> 0, latest |-> NoRow]

\* the data object of prisma.transcodingJob.create
NewTJob(status, progress, err) ==
    [status |-> status, progress |-> progress,
     startedAt |-> (status = "processing"),
     completedAt |-> (status \in {"completed", "failed"}),
     errorMessage |-> err]

createTranscodingJob(t, status, progress, err) ==
    [rows |-> t.rows + 1, latest |-> NewTJob(status, progress, err)]

\* the data object of prisma.transcodingJob.update
UpdateData(row, status, progress, err) ==
    [status |-> status, progress |-> progress,
     startedAt |-> IF status = "processing" /\ ~row.startedAt THEN TRUE ELSE row.startedAt,
     completedAt |-> IF status \in {"completed", "failed"} THEN TRUE ELSE row.completedAt,
     errorMessage |-> IF err # NoError THEN err ELSE row.errorMessage]

\* an update that writes the progress and leaves status and message alone
updateProgressOnly(tj, c, status, progress, err) ==
    IF tj[c].rows = 0 THEN [tj EXCEPT ![c] = createTranscodingJob(@, "processing", progress, NoError)]
    ELSE [tj EXCEPT ![c].latest.progress = progress]

\* BullQueueManager.updateJobStatus: update the latest row, nothing when none
updateJobStatus(tj, c, status, progress, err) ==
    IF tj[c].rows = 0 THEN tj
    ELSE [tj EXCEPT ![c].latest = UpdateData(@, status, progress, err)]

\* updateTranscodingJob of the processors and of TranscodingService:
\* update the latest row, create one when the chapter has none
updateTranscodingJob(tj, c, status, progress, err) ==
    IF tj[c].rows = 0 THEN [tj EXCEPT ![c] = createTranscodingJob(@, status, progress, err)]
    ELSE [tj EXCEPT ![c].latest = UpdateData(@, status, progress, err)]

\* an update whose DB calls run later: a queue event or an un-awaited call
Update(c, status, progress, err, create) ==
    [chapterId |-> c, status |-> status, progress |-> progress,
     errorMessage |-> err, create |-> create]

\* pending is a bag: updates with the same data are told apart by their number
CanEmit == BagCardinality(pending) < MaxPending

Emit(bag, u) == bag (+) SetToBag({u})

\* the handlers of queue.on('progress' | 'completed' | 'failed')
ProgressEvent(c, p) == Update(c, "processing", p, NoError, FALSE)
CompletedEvent(c) == Update(c, "completed", 100, NoError, FALSE)
FailedEvent(c, err) == Update(c, "failed", 0, err, FALSE)

\* ------------------------------------------------------------ Rendition rows
CompletedBitrates(rows, c) ==
    {r.bitrate : r \in {x \in rows : x.chapterId = c /\ x.status = "completed"}}

RowsOf(rows, c, b) == {r \in rows : r.chapterId = c /\ r.bitrate = b}

\* a create where the code upserts
insertTranscodedChapter(rows, c, b, job) ==
    rows \cup {[chapterId |-> c, bitrate |-> b, status |-> "completed",
               playlistUrl |-> PlaylistUrl(c, b),
               segmentsPath |-> SegmentsPath(c, b),
               id |-> job, updatedBy |-> job]}

\* prisma.transcodedChapter.upsert on the unique key (chapterId, bitrate);
\* id is the job that created the row, updatedBy the job that wrote it last
upsertTranscodedChapter(rows, c, b, job) ==
    IF RowsOf(rows, c, b) = {}
    THEN rows \cup {[chapterId |-> c, bitrate |-> b, status |-> "completed",
                     playlistUrl |-> PlaylistUrl(c, b),
                     segmentsPath |-> SegmentsPath(c, b),
                     id |-> job, updatedBy |-> job]}
    ELSE {IF r.chapterId = c /\ r.bitrate = b
          THEN [r EXCEPT !.status = "completed",
                         !.playlistUrl = PlaylistUrl(c, b),
                         !.segmentsPath = SegmentsPath(c, b),
                         !.updatedBy = job]
          ELSE r : r \in rows}

\* ------------------------------------------------------------------ broker
\* bindings of transcoding.exchange: routing key -> queue
QueueForRoutingKey(key) ==
    IF key \in {"priority", "normal", "low"}
    THEN <<"audiobook.transcode.", key>>
    ELSE <<>>

\* RabbitMQConnection.publishTranscodingJob: the routing key is the priority
publishTranscodingJob(q, n, c, bs, p, retry) ==
    IF QueueForRoutingKey(p) = <<>> THEN q
    ELSE q \cup {[id |-> n, chapter |-> c, bitrates |-> bs, priority |-> p,
                  retryCount |-> retry, queue |-> QueueForRoutingKey(p)]}

\* a caller hands a chapter to the service
PublishRequest(c, bs, p) ==
    /\ published < MaxIntake
    /\ requested + Len(bs) <= MaxRequested
    /\ published' = published + 1
    /\ requested' = requested + Len(bs)
    /\ iq' = publishTranscodingJob(iq, published + 1, c, bs, p, 0)
    /\ UNCHANGED <<acked, tjobs, renditions, bjobs, mjobs, os, master, pending, deletions, failures>>
    /\ UNCHANGED streamVars

\* -------------------------------------------------------------- Bull queues
BullPriority(p) == IF p = "high" THEN 10 ELSE IF p = "normal" THEN 5 ELSE 1

NewBJob(m) ==
    [pc |-> "waiting", attemptsMade |-> 0, runs |-> 0, percent |-> 0,
     err |-> NoError, priority |-> BullPriority(m.priority), msg |-> m.id]

\* delay: 5000 of addMasterPlaylistJob
MasterJobDelay == 5000

NewMJob(m, variant) ==
    [pc |-> "waiting", attemptsMade |-> 0, variantBitrates |-> variant,
     found |-> {}, content |-> <<>>, err |-> NoError,
     priority |-> BullPriority(m.priority), delay |-> MasterJobDelay, msg |-> m.id]

BJobCount(jobs, c, b) == Cardinality({j \in DOMAIN jobs : j[1] = c /\ j[2] = b})
MJobCount(jobs, c) == Cardinality({j \in DOMAIN jobs : j[1] = c})

\* BullQueueManager.addBitrateTranscodingJob, jobId
\* {chapterId}-{bitrate}k-{Date.now()}: a new job at every call.  count is
\* bitrateJobs.length of the caller; an unsupported bitrate makes
\* getQueueNameForBitrate throw and the caller goes on with the next one.
addBitrateTranscodingJob(jobs, count, m, b) ==
    IF b \notin Bitrates THEN [jobs |-> jobs, count |-> count]
    ELSE [jobs |-> jobs @@ (<<m.chapter, b, BJobCount(jobs, m.chapter, b) + 1>> :> NewBJob(m)),
          count |-> count + 1]

RECURSIVE AddBitrateJobsUntilError(_, _, _, _)
\* a loop that an unsupported bitrate ends
AddBitrateJobsUntilError(jobs, count, m, bs) ==
    IF bs = <<>> \/ Head(bs) \notin Bitrates THEN [jobs |-> jobs, count |-> count]
    ELSE LET o == addBitrateTranscodingJob(jobs, count, m, Head(bs))
         IN  AddBitrateJobsUntilError(o.jobs, o.count, m, Tail(bs))

RECURSIVE AddBitrateJobs(_, _, _, _)
\* the for loop of processTranscodingJob over remainingBitrates
AddBitrateJobs(jobs, count, m, bs) ==
    IF bs = <<>> THEN [jobs |-> jobs, count |-> count]
    ELSE LET o == addBitrateTranscodingJob(jobs, count, m, Head(bs))
         IN  AddBitrateJobs(o.jobs, o.count, m, Tail(bs))

\* BullQueueManager.addMasterPlaylistJob, jobId {chapterId}-master-{Date.now()}
addMasterPlaylistJob(jobs, m, variant) ==
    jobs @@ (<<m.chapter, MJobCount(jobs, m.chapter) + 1>> :> NewMJob(m, variant))

\* ------------------------------------------------------------ intake worker
ExistingBitrates(rows, m) == CompletedBitrates(rows, m.chapter) \cap SeqToSet(m.bitrates)
\* no filter on the bitrates that are completed
AllRequestedBitrates(rows, m) == m.bitrates

RemainingBitrates(rows, m) ==
    FilterSeq(m.bitrates, SeqToSet(m.bitrates) \ ExistingBitrates(rows, m))

\* TranscodingWorker.processTranscodingJob followed by the ack of
\* consumeTranscodingJobs (the DB and the queues answer: the catch block with
\* its republish is not entered)
processTranscodingJob(m) ==
    /\ m \in iq
    /\ iq' = iq \ {m}
    /\ acked' = acked \cup {m.id}
    /\ LET remaining == RemainingBitrates(renditions, m)
           o == AddBitrateJobs(bjobs, 0, m, remaining)
       IN  IF remaining = <<>>
           THEN UNCHANGED <<tjobs, bjobs, mjobs>>
           ELSE /\ tjobs' = [tjobs EXCEPT ![m.chapter] = createTranscodingJob(@, "processing", 0, NoError)]
                /\ bjobs' = o.jobs
                /\ mjobs' = IF o.count > 0
                            THEN addMasterPlaylistJob(mjobs, m, remaining)
                            ELSE mjobs
    /\ UNCHANGED <<published, requested, renditions, os, master, pending, deletions, failures>>
    /\ UNCHANGED streamVars

\* one retry more than the code allows
RetryOnceMore(m) == m.retryCount <= MaxRetryCount

\* if (retryCount < 3)
ShouldRetry(m) == m.retryCount < MaxRetryCount

\* processTranscodingJob when findMany or transcodingJob.create throws: the
\* catch block republishes the request on the low queue with retryCount + 1
\* while retryCount < 3, then calls updateTranscodingJobStatus('failed', 0,
\* message), which swallows its own error when the database still does not
\* answer.  The callback returns normally, so consumeTranscodingJobs acks.
processTranscodingJobFailed(m) ==
    /\ m \in iq
    /\ acked' = acked \cup {m.id}
    /\ IF ShouldRetry(m)
       THEN /\ iq' = publishTranscodingJob(iq \ {m}, published + 1, m.chapter,
                                           m.bitrates, "low", m.retryCount + 1)
            /\ published' = published + 1
       ELSE /\ iq' = iq \ {m}
            /\ UNCHANGED published
    /\ \E answers \in BOOLEAN :
          tjobs' = IF answers
                   THEN updateTranscodingJob(tjobs, m.chapter, "failed", 0, DatabaseError)
                   ELSE tjobs
    /\ UNCHANGED <<requested, renditions, bjobs, mjobs, os, master, pending, deletions, failures>>
    /\ UNCHANGED streamVars

\* ------------------------------------------------------------ bitrate worker
\* A step of a job ends at a read or write other workers can see, and issues
\* at most one update whose handler runs later (see ApplyUpdate).
BActivePcs == {"checking", "preparing", "encoding", "upserting", "returning", "throwing"}
BActive(b) == {j \in DOMAIN bjobs : j[2] = b /\ bjobs[j].pc \in BActivePcs}

\* the worker of the bitrate's queue takes the job; job.progress(10)
BStart(j) ==
    /\ bjobs[j].pc = "waiting"
    /\ Cardinality(BActive(j[2])) < BitrateConcurrency
    /\ CanEmit
    /\ bjobs' = [bjobs EXCEPT ![j].pc = "checking"]
    /\ pending' = Emit(pending, ProgressEvent(j[1], 10))
    /\ UNCHANGED <<iq, published, requested, acked, tjobs, renditions, mjobs, os, master, deletions, failures>>
    /\ UNCHANGED streamVars

\* a worker that does not look for the completed rendition
BCheckNoShortCircuit(j) ==
    /\ bjobs[j].pc = "checking"
    /\ CanEmit
    /\ bjobs' = [bjobs EXCEPT ![j].pc = "preparing"]
    /\ pending' = Emit(pending, ProgressEvent(j[1], 20))
    /\ UNCHANGED <<iq, published, requested, acked, tjobs, renditions, mjobs, os, master, deletions, failures>>
    /\ UNCHANGED streamVars

\* findUnique: job.progress(100) and return when the rendition is completed,
\* job.progress(20) otherwise
BCheck(j) ==
    /\ bjobs[j].pc = "checking"
    /\ CanEmit
    /\ IF j[2] \in CompletedBitrates(renditions, j[1])
       THEN /\ bjobs' = [bjobs EXCEPT ![j].pc = "returning"]
            /\ pending' = Emit(pending, ProgressEvent(j[1], 100))
       ELSE /\ bjobs' = [bjobs EXCEPT ![j].pc = "preparing"]
            /\ pending' = Emit(pending, ProgressEvent(j[1], 20))
    /\ UNCHANGED <<iq, published, requested, acked, tjobs, renditions, mjobs, os, master, deletions, failures>>
    /\ UNCHANGED streamVars

\* transcodeSingleBitrate up to command.run(): ensureInputFileExists and
\* downloadToTemp throw when the source is not in the store, else
\* transcodeToBitrate issues updateTranscodingJob('processing', 0) without
\* awaiting it and starts ffmpeg
BPrepare(j) ==
    /\ bjobs[j].pc = "preparing"
    /\ IF SourcePath(j[1]) \notin os
       THEN /\ bjobs' = [bjobs EXCEPT ![j].pc = "throwing",
                                      ![j].err = SingleBitrateFailed(InputMissing)]
            /\ UNCHANGED pending
       ELSE /\ CanEmit
            /\ bjobs' = [bjobs EXCEPT ![j].pc = "encoding", ![j].runs = @ + 1,
                                      ![j].percent = 0]
            /\ pending' = Emit(pending, Update(j[1], "processing", 0, NoError, TRUE))
    /\ UNCHANGED <<iq, published, requested, acked, tjobs, renditions, mjobs, os, master, deletions, failures>>
    /\ UNCHANGED streamVars

\* ffmpeg 'progress': updateTranscodingJob('processing', percent), not awaited
BEncoderProgress(j) ==
    /\ bjobs[j].pc = "encoding"
    /\ CanEmit
    /\ \E p \in EncoderPercents :
          /\ bjobs[j].percent < p
          /\ bjobs' = [bjobs EXCEPT ![j].percent = p]
          /\ pending' = Emit(pending, Update(j[1], "processing", p, NoError, TRUE))
    /\ UNCHANGED <<iq, published, requested, acked, tjobs, renditions, mjobs, os, master, deletions, failures>>
    /\ UNCHANGED streamVars

\* ffmpeg 'end': the files are in the store (uploadTranscodedFiles, local
\* provider), then await updateTranscodingJob('completed', 100); back in the
\* processor, job.progress(80)
BEncodeOk(j) ==
    /\ bjobs[j].pc = "encoding"
    /\ CanEmit
    /\ os' = os \cup EncoderOutput(j[1], j[2])
    /\ tjobs' = updateTranscodingJob(tjobs, j[1], "completed", 100, NoError)
    /\ bjobs' = [bjobs EXCEPT ![j].pc = "upserting"]
    /\ pending' = Emit(pending, ProgressEvent(j[1], 80))
    /\ UNCHANGED <<iq, published, requested, acked, renditions, mjobs, master, deletions, failures>>
    /\ UNCHANGED streamVars

\* ffmpeg 'error': await updateTranscodingJob('failed', progress, message),
\* then reject; the segments written so far stay where they are
EncoderFails(j) ==
    /\ bjobs[j].pc = "encoding"
    /\ \E k \in 0..(NumSegments - 1) : os' = os \cup PartialOutput(j[1], j[2], k)
    /\ tjobs' = updateTranscodingJob(tjobs, j[1], "failed", bjobs[j].percent, EncoderError)
    /\ bjobs' = [bjobs EXCEPT ![j].pc = "throwing",
                              ![j].err = SingleBitrateFailed(EncoderError)]
    /\ UNCHANGED <<iq, published, requested, acked, renditions, mjobs, master, pending, deletions>>
    /\ UNCHANGED streamVars

\* a run of ffmpeg that fails, any job at any attempt
BEncodeFail(j) ==
    /\ failures < MaxFailures
    /\ failures' = failures + 1
    /\ EncoderFails(j)

\* updateTranscodedChapter, then job.progress(100)
BUpsert(j) ==
    /\ bjobs[j].pc = "upserting"
    /\ CanEmit
    /\ renditions' = upsertTranscodedChapter(renditions, j[1], j[2], j)
    /\ bjobs' = [bjobs EXCEPT ![j].pc = "returning"]
    /\ pending' = Emit(pending, ProgressEvent(j[1], 100))
    /\ UNCHANGED <<iq, published, requested, acked, tjobs, mjobs, os, master, deletions, failures>>
    /\ UNCHANGED streamVars

\* the processor returns: Bull completes the job and emits 'completed'
BReturn(j) ==
    /\ bjobs[j].pc = "returning"
    /\ CanEmit
    /\ bjobs' = [bjobs EXCEPT ![j].pc = "completed"]
    /\ pending' = Emit(pending, CompletedEvent(j[1]))
    /\ UNCHANGED <<iq, published, requested, acked, tjobs, renditions, mjobs, os, master, deletions, failures>>
    /\ UNCHANGED streamVars

\* a queue that grants one attempt more than configured
AfterFailureOneMore(job) ==
    [job EXCEPT !.attemptsMade = @ + 1,
                !.pc = IF job.attemptsMade + 1 < BULL_MAX_ATTEMPTS + 1 THEN "waiting" ELSE "failed"]

\* attempt accounting of Bull: a failed attempt is retried (after the
\* backoff) while attemptsMade < attempts
AfterFailure(job) ==
    [job EXCEPT !.attemptsMade = @ + 1,
                !.pc = IF job.attemptsMade + 1 < BULL_MAX_ATTEMPTS THEN "waiting" ELSE "failed"]

\* catch of processBitrateTranscoding: await updateTranscodingJob('failed', 0,
\* message) and rethrow; Bull fails the attempt and emits 'failed'
BCatch(j) ==
    /\ bjobs[j].pc = "throwing"
    /\ CanEmit
    /\ tjobs' = updateTranscodingJob(tjobs, j[1], "failed", 0, bjobs[j].err)
    /\ bjobs' = [bjobs EXCEPT ![j] = AfterFailure(@)]
    /\ pending' = Emit(pending, FailedEvent(j[1], bjobs[j].err))
    /\ UNCHANGED <<iq, published, requested, acked, renditions, mjobs, os, master, deletions, failures>>
    /\ UNCHANGED streamVars

\* a queue event handler or an un-awaited call performs its DB update
ApplyUpdate(u) ==
    /\ BagIn(u, pending)
    /\ pending' = pending (-) SetToBag({u})
    /\ tjobs' = IF u.create
                THEN updateTranscodingJob(tjobs, u.chapterId, u.status, u.progress, u.errorMessage)
                ELSE updateJobStatus(tjobs, u.chapterId, u.status, u.progress, u.errorMessage)
    /\ UNCHANGED <<iq, published, requested, acked, renditions, bjobs, mjobs, os, master, deletions, failures>>
    /\ UNCHANGED streamVars

\* ------------------------------------------------------------ master worker
\* TranscodingService.generateMasterPlaylist: one entry per variant, in the
\* order of the argument
generateMasterPlaylist(variants) ==
    [i \in 1..Len(variants) |->
        [bandwidth |-> variants[i] * 1000, uri |-> <<variants[i], "k/playlist.m3u8">>]]

\* the bitrates a master playlist lists, in the order it lists them
ListedVariants(text) == [i \in 1..Len(text) |-> text[i].bandwidth \div 1000]

MActivePcs == {"polling", "sleeping", "found", "uploading", "returning", "throwing"}
MActive == {j \in DOMAIN mjobs : mjobs[j].pc \in MActivePcs}

\* a wait that reports the expected bitrates only once all of them are
\* completed
AllCompletedIn(rows, c, bs) == IF bs \subseteq CompletedBitrates(rows, c) THEN bs ELSE {}

\* the bitrates of the rows findMany returns for
\* {chapterId, bitrate in bs, status completed}
CompletedIn(rows, c, bs) == CompletedBitrates(rows, c) \cap bs

\* the worker takes the job (after its 5 s delay); job.progress(10)
MStart(j) ==
    /\ mjobs[j].pc = "waiting"
    /\ Cardinality(MActive) < MasterConcurrency
    /\ CanEmit
    /\ mjobs' = [mjobs EXCEPT ![j].pc = "polling"]
    /\ pending' = Emit(pending, ProgressEvent(j[1], 10))
    /\ UNCHANGED <<iq, published, requested, acked, tjobs, renditions, bjobs, os, master, deletions, failures>>
    /\ UNCHANGED streamVars

\* one round of waitForBitrateJobs: return as soon as one expected bitrate is
\* completed (then job.progress(30)), sleep otherwise
MPoll(j) ==
    /\ mjobs[j].pc \in {"polling", "sleeping"}
    /\ LET done == CompletedIn(renditions, j[1], SeqToSet(mjobs[j].variantBitrates))
       IN  IF done # {}
           THEN /\ CanEmit
                /\ mjobs' = [mjobs EXCEPT ![j].pc = "found", ![j].found = done]
                /\ pending' = Emit(pending, ProgressEvent(j[1], 30))
           ELSE /\ mjobs[j].pc = "polling"
                /\ mjobs' = [mjobs EXCEPT ![j].pc = "sleeping"]
                /\ UNCHANGED pending
    /\ UNCHANGED <<iq, published, requested, acked, tjobs, renditions, bjobs, os, master, deletions, failures>>
    /\ UNCHANGED streamVars

\* the 30 minutes are over after a round that found nothing: return [] and
\* throw
MTimeout(j) ==
    /\ mjobs[j].pc = "sleeping"
    /\ failures < MaxFailures
    /\ failures' = failures + 1
    /\ mjobs' = [mjobs EXCEPT ![j].pc = "throwing", ![j].err = NoBitrateCompleted]
    /\ UNCHANGED <<iq, published, requested, acked, tjobs, renditions, bjobs, os, master, pending, deletions>>
    /\ UNCHANGED streamVars

\* generateMasterPlaylistForBitrates: findMany (no orderBy) over the bitrates
\* found, then job.progress(70)
MGenerate(j) ==
    /\ mjobs[j].pc = "found"
    /\ LET rows == CompletedIn(renditions, j[1], mjobs[j].found)
       IN  IF rows = {}
           THEN /\ mjobs' = [mjobs EXCEPT ![j].pc = "throwing", ![j].err = NoCompletedFound]
                /\ UNCHANGED pending
           ELSE /\ CanEmit
                /\ \E order \in Perms(rows) :
                      mjobs' = [mjobs EXCEPT ![j].pc = "uploading",
                                             ![j].content = generateMasterPlaylist(order)]
                /\ pending' = Emit(pending, ProgressEvent(j[1], 70))
    /\ UNCHANGED <<iq, published, requested, acked, tjobs, renditions, bjobs, os, master, deletions, failures>>
    /\ UNCHANGED streamVars

\* uploadMasterPlaylist, then job.progress(100)
MUpload(j) ==
    /\ mjobs[j].pc = "uploading"
    /\ CanEmit
    /\ os' = os \cup {MasterPath(j[1])}
    /\ master' = [master EXCEPT ![j[1]] = mjobs[j].content]
    /\ mjobs' = [mjobs EXCEPT ![j].pc = "returning"]
    /\ pending' = Emit(pending, ProgressEvent(j[1], 100))
    /\ UNCHANGED <<iq, published, requested, acked, tjobs, renditions, bjobs, deletions, failures>>
    /\ UNCHANGED streamVars

\* the processor returns: Bull completes the job and emits 'completed'
MReturn(j) ==
    /\ mjobs[j].pc = "returning"
    /\ CanEmit
    /\ mjobs' = [mjobs EXCEPT ![j].pc = "completed"]
    /\ pending' = Emit(pending, CompletedEvent(j[1]))
    /\ UNCHANGED <<iq, published, requested, acked, tjobs, renditions, bjobs, os, master, deletions, failures>>
    /\ UNCHANGED streamVars

\* catch of processMasterPlaylist: await updateTranscodingJob('failed', 0,
\* message) and rethrow; Bull fails the attempt and emits 'failed'
MCatch(j) ==
    /\ mjobs[j].pc = "throwing"
    /\ CanEmit
    /\ tjobs' = updateTranscodingJob(tjobs, j[1], "failed", 0, mjobs[j].err)
    /\ mjobs' = [mjobs EXCEPT ![j] = AfterFailure(@)]
    /\ pending' = Emit(pending, FailedEvent(j[1], mjobs[j].err))
    /\ UNCHANGED <<iq, published, requested, acked, renditions, bjobs, os, master, deletions, failures>>
    /\ UNCHANGED streamVars

\* ---------------------------------------------------------- deletion worker
\* a delete of one row where the code deletes them all
deleteFirstTranscodedChapter(rows, c) ==
    rows \ {CHOOSE r \in rows : r.chapterId = c}

\* a deleteMany without its where clause
deleteManyWithoutWhere(rows, c) == {}

\* prisma.transcodedChapter.deleteMany({chapterId})
deleteManyTranscodedChapters(rows, c) == {r \in rows : r.chapterId # c}

\* ChapterDeletionWorker.processChapterDeletion: findMany, return when the
\* chapter has no row, deleteMany otherwise
processChapterDeletion(c) ==
    /\ Len(deletions) < MaxDeletions
    /\ deletions' = Append(deletions, c)
    /\ renditions' = IF {r \in renditions : r.chapterId = c} = {}
                     THEN renditions
                     ELSE deleteManyTranscodedChapters(renditions, c)
    /\ UNCHANGED <<iq, published, requested, acked, tjobs, bjobs, mjobs, os, master, pending, failures>>
    /\ UNCHANGED streamVars

\* ------------------------------------------------------------------- cache
\* contents are records told apart by their kind: the bytes of the object
\* stored at a key, a playlist text, the empty buffer, null
Content(key) == [kind |-> "bytes", entries |-> <<>>, key |-> key]
PlaylistText(entries) == [kind |-> "playlist", entries |-> entries, key |-> <<>>]
EmptyBuffer == [kind |-> "empty", entries |-> <<>>, key |-> <<>>]
Null == [kind |-> "null", entries |-> <<>>, key |-> <<>>]

\* Buffer.toString('base64') and Buffer.from(s, 'base64'); the encoding of
\* the empty buffer is the empty string, which is falsy
ToBase64(bytes) == [base64 |-> bytes]
FromBase64(str) == str.base64
Truthy(str) == str.base64.kind # "empty"

SegmentCacheKey(segmentId) == <<"stream:segment:", segmentId>>
MasterCacheKey(c) == <<"stream:playlist:", c, ":master">>

\* a read whose catch block does not count the failed request
cacheGetNoMissOnError(ch, st, key) ==
    IF ~redisUp
    THEN [value |-> Null, stats |-> [st EXCEPT !.totalRequests = @ + 1]]
    ELSE IF key \in DOMAIN ch /\ Truthy(ch[key])
    THEN [value |-> FromBase64(ch[key]),
          stats |-> [st EXCEPT !.totalRequests = @ + 1, !.hits = @ + 1]]
    ELSE [value |-> Null,
          stats |-> [st EXCEPT !.totalRequests = @ + 1, !.misses = @ + 1]]

\* StreamingCacheService.get: [value, stats]; an entry counts as cached when
\* the stored string is truthy; when the Redis call throws, the catch block
\* counts a miss and returns null
cacheGet(ch, st, key) ==
    IF redisUp /\ key \in DOMAIN ch /\ Truthy(ch[key])
    THEN [value |-> FromBase64(ch[key]),
          stats |-> [st EXCEPT !.totalRequests = @ + 1, !.hits = @ + 1]]
    ELSE [value |-> Null,
          stats |-> [st EXCEPT !.totalRequests = @ + 1, !.misses = @ + 1]]

\* APPEND where the code issues SETEX: a second write of a key extends the
\* stored string
appendCacheSet(ch, key, value) ==
    [k \in DOMAIN ch \cup {key} |->
        IF k = key
        THEN IF key \in DOMAIN ch
             THEN ToBase64(Content(<<FromBase64(ch[key]).key, value.key>>))
             ELSE ToBase64(value)
        ELSE ch[k]]

\* StreamingCacheService.set: setex of the encoded value (the ':meta' entry
\* written next to it and the cacheSize counter are not kept)
\* when the Redis call throws, the catch block returns false
cacheSet(ch, key, value) ==
    IF ~redisUp THEN ch
    ELSE [k \in DOMAIN ch \cup {key} |-> IF k = key THEN ToBase64(value) ELSE ch[k]]

\* a fallback whose cache error reaches the outer catch block
getWithFallbackOuterCatch(ch, st, store, key, storagePath) ==
    LET g == cacheGet(ch, st, key)
    IN  IF ~redisUp
        THEN [value |-> Null, stats |-> g.stats, cache |-> ch, downloaded |-> FALSE]
        ELSE IF g.value # Null
        THEN [value |-> g.value, stats |-> g.stats, cache |-> ch, downloaded |-> FALSE]
        ELSE IF storagePath \in store
        THEN [value |-> Content(storagePath), stats |-> g.stats,
              cache |-> cacheSet(ch, key, Content(storagePath)), downloaded |-> TRUE]
        ELSE [value |-> Null, stats |-> g.stats, cache |-> ch, downloaded |-> TRUE]

\* StreamingCacheService.getWithFallback: [value, stats, cache, downloaded]
getWithFallback(ch, st, store, key, storagePath) ==
    LET g == cacheGet(ch, st, key)
    IN  IF g.value # Null
        THEN [value |-> g.value, stats |-> g.stats, cache |-> ch, downloaded |-> FALSE]
        ELSE IF storagePath \in store
        THEN [value |-> Content(storagePath), stats |-> g.stats,
              cache |-> cacheSet(ch, key, Content(storagePath)), downloaded |-> TRUE]
        ELSE [value |-> Null, stats |-> g.stats, cache |-> ch, downloaded |-> TRUE]

\* a segment id without padStart
unpaddedSegmentId(c, b, i) == <<c, "_", b, "_", <<i>>>>

\* segmentId of preloadChapterSegments: {chapterId}_{bitrate}_{NNN}
preloadSegmentId(c, b, i) == <<c, "_", b, "_", Pad3(i)>>

RECURSIVE preloadChapterSegments(_, _, _, _, _)
\* the loop of StreamingCacheService.preloadChapterSegments, from segment
\* segmentCount - 1 down to 0 (the entries do not depend on the order)
preloadChapterSegments(ch, store, c, b, segmentCount) ==
    IF segmentCount = 0 THEN ch
    ELSE LET i == segmentCount - 1
             storagePath == ArtifactKey(c, b, SegmentFile(i))
             rest == preloadChapterSegments(ch, store, c, b, i)
         IN  IF storagePath \in store
             THEN cacheSet(rest, SegmentCacheKey(preloadSegmentId(c, b, i)), Content(storagePath))
             ELSE rest

\* ------------------------------------------------------- streaming service
\* storageProvider.listFiles(prefix), local provider
listFiles(store, dir) == {k \in store : k[1] = dir}
EndsWithTs(k) == k[2][Len(k[2])] = ".ts"

RECURSIVE SortAscending(_)
SortAscending(S) ==
    IF S = {} THEN <<>>
    ELSE LET m == CHOOSE x \in S : \A y \in S : x <= y
         IN  <<m>> \o SortAscending(S \ {m})

\* orderBy bitrate desc
getAvailableBitratesDesc(rows, c) ==
    LET asc == SortAscending(CompletedBitrates(rows, c))
    IN  [i \in 1..Len(asc) |-> asc[Len(asc) + 1 - i]]

\* HLSStreamingService.getAvailableBitrates: completed rows, orderBy bitrate asc
getAvailableBitrates(rows, c) == SortAscending(CompletedBitrates(rows, c))

\* an optional number of a request: undefined, or the parsed query value
NotGiven == [given |-> FALSE, value |-> 0]
Given(n) == [given |-> TRUE, value |-> n]
\* the truthiness test of an optional number: undefined and 0 are falsy
IsTruthy(opt) == opt.given /\ opt.value # 0

\* HLSStreamingService.selectRecommendedBitrate over the ascending list bs
selectRecommendedBitrate(bs, clientBandwidth, preferredBitrate) ==
    LET suitable == {i \in 1..Len(bs) : bs[i] * 1000 <= clientBandwidth.value}
    IN  IF bs = <<>>
        THEN 128
        ELSE IF IsTruthy(preferredBitrate) /\ preferredBitrate.value \in SeqToSet(bs)
        THEN preferredBitrate.value
        ELSE IF ~IsTruthy(clientBandwidth)
        THEN bs[(Len(bs) \div 2) + 1]
        ELSE IF suitable # {}
        THEN bs[CHOOSE i \in suitable : \A k \in suitable : k <= i]
        ELSE bs[1]

\* HLSStreamingService.generateMasterPlaylist: one entry per available bitrate
generateStreamMasterPlaylist(c, bs, clientBandwidth, preferredBitrate) ==
    [i \in 1..Len(bs) |->
        [bandwidth |-> bs[i] * 1000, uri |-> PlaylistUrl(c, bs[i]),
         recommended |-> (bs[i] = selectRecommendedBitrate(bs, clientBandwidth, preferredBitrate))]]

\* the same for a request without bandwidth and preferred bitrate
streamMasterPlaylist(c, bs) == generateStreamMasterPlaylist(c, bs, NotGiven, NotGiven)

Response(op, c, b, s, code, content, downloaded) ==
    [op |-> op, chapterId |-> c, bitrate |-> b, segmentId |-> s,
     statusCode |-> code, content |-> content, downloaded |-> downloaded]

\* HLSStreamingService.getSegment
getSegment(c, b, s) ==
    /\ stats.totalRequests + 2 <= MaxRequests
    /\ IF b \notin CompletedBitrates(renditions, c)
       THEN /\ resp' = Response("getSegment", c, b, s, 404, Null, FALSE)
            /\ UNCHANGED <<cache, stats>>
       ELSE LET row == CHOOSE r \in RowsOf(renditions, c, b) : TRUE
                segmentPath == <<row.segmentsPath, s>>
                g == cacheGet(cache, stats, SegmentCacheKey(s))
                f == getWithFallback(cache, g.stats, os, SegmentCacheKey(s), segmentPath)
            IN  IF g.value # Null
                THEN /\ resp' = Response("getSegment", c, b, s, 200, g.value, FALSE)
                     /\ stats' = g.stats
                     /\ UNCHANGED cache
                ELSE /\ resp' = Response("getSegment", c, b, s,
                                         IF f.value # Null THEN 200 ELSE 404,
                                         f.value, f.downloaded)
                     /\ stats' = f.stats
                     /\ cache' = f.cache
    /\ UNCHANGED <<pipeVars, redisUp, rabbit, inflight>>

\* the number NNN of a stored segment_NNN.ts
SegmentNumber(k) == k[2][2][1] * 100 + k[2][2][2] * 10 + k[2][2][3]

\* the closing line #EXT-X-ENDLIST of a variant playlist
EndList == [bandwidth |-> 0, uri |-> <<"#EXT-X-ENDLIST">>, recommended |-> FALSE]

RECURSIVE SortByNameDesc(_)
\* the listed segment files, last name first
SortByNameDesc(files) ==
    IF files = {} THEN <<>>
    ELSE LET first == CHOOSE k \in files : \A o \in files : SegmentNumber(k) >= SegmentNumber(o)
         IN  <<first>> \o SortByNameDesc(files \ {first})

RECURSIVE SortByName(_)
\* Array.prototype.sort of the listed segment files
SortByName(files) ==
    IF files = {} THEN <<>>
    ELSE LET first == CHOOSE k \in files : \A o \in files : SegmentNumber(k) <= SegmentNumber(o)
         IN  <<first>> \o SortByName(files \ {first})

VariantCacheKey(c, b) == <<"stream:playlist:", c, ":", b>>

\* HLSStreamingService.generateVariantPlaylist: one #EXTINF entry per .ts file
\* listed under the rendition's segmentsPath, by name
generateVariantPlaylist(store, row) ==
    LET segmentFiles == SortByName({k \in listFiles(store, row.segmentsPath) : EndsWithTs(k)})
    IN  PlaylistText([i \in 1..Len(segmentFiles) |->
                         [bandwidth |-> 0, uri |-> segmentFiles[i][2], recommended |-> FALSE]]
                     \o <<EndList>>)

\* the cache is asked before the rendition row is looked up
getVariantPlaylistCacheFirst(c, b) ==
    /\ stats.totalRequests + 1 <= MaxRequests
    /\ LET g == cacheGet(cache, stats, VariantCacheKey(c, b))
       IN  /\ stats' = g.stats
           /\ IF g.value # Null
              THEN /\ resp' = Response("getVariantPlaylist", c, b, <<>>, 200, g.value, FALSE)
                   /\ UNCHANGED cache
              ELSE IF b \notin CompletedBitrates(renditions, c)
              THEN /\ resp' = Response("getVariantPlaylist", c, b, <<>>, 404, Null, FALSE)
                   /\ UNCHANGED cache
              ELSE LET row == CHOOSE r \in RowsOf(renditions, c, b) : TRUE
                       playlistContent == generateVariantPlaylist(os, row)
                   IN  /\ resp' = Response("getVariantPlaylist", c, b, <<>>, 200, playlistContent, TRUE)
                       /\ cache' = cacheSet(cache, VariantCacheKey(c, b), playlistContent)
    /\ UNCHANGED <<pipeVars, redisUp, rabbit, inflight>>

\* HLSStreamingService.getVariantPlaylist
getVariantPlaylist(c, b) ==
    /\ stats.totalRequests + 1 <= MaxRequests
    /\ IF b \notin CompletedBitrates(renditions, c)
       THEN /\ resp' = Response("getVariantPlaylist", c, b, <<>>, 404, Null, FALSE)
            /\ UNCHANGED <<cache, stats>>
       ELSE LET row == CHOOSE r \in RowsOf(renditions, c, b) : TRUE
                g == cacheGet(cache, stats, VariantCacheKey(c, b))
                playlistContent == generateVariantPlaylist(os, row)
            IN  /\ stats' = g.stats
                /\ IF g.value # Null
                   THEN /\ resp' = Response("getVariantPlaylist", c, b, <<>>, 200, g.value, FALSE)
                        /\ UNCHANGED cache
                   ELSE /\ resp' = Response("getVariantPlaylist", c, b, <<>>, 200, playlistContent, TRUE)
                        /\ cache' = cacheSet(cache, VariantCacheKey(c, b), playlistContent)
    /\ UNCHANGED <<pipeVars, redisUp, rabbit, inflight>>

\* HLSStreamingService.preloadChapter
preloadChapter(c, b) ==
    /\ IF b \notin CompletedBitrates(renditions, c)
       THEN /\ resp' = Response("preloadChapter", c, b, <<>>, 404, Null, FALSE)
            /\ UNCHANGED cache
       ELSE LET row == CHOOSE r \in RowsOf(renditions, c, b) : TRUE
                segmentFiles == {k \in listFiles(os, row.segmentsPath) : EndsWithTs(k)}
            IN  /\ cache' = preloadChapterSegments(cache, os, c, b, Cardinality(segmentFiles))
                /\ resp' = Response("preloadChapter", c, b, <<>>, 200, Null, TRUE)
    /\ UNCHANGED stats
    /\ UNCHANGED <<pipeVars, redisUp, rabbit, inflight>>

\* HLSStreamingService.getMasterPlaylist
getMasterPlaylistFor(c, clientBandwidth, preferredBitrate) ==
    /\ LET availableBitrates == getAvailableBitrates(renditions, c)
           playlist == PlaylistText(generateStreamMasterPlaylist(c, availableBitrates,
                                                                clientBandwidth, preferredBitrate))
       IN  IF availableBitrates = <<>>
           THEN /\ resp' = Response("getMasterPlaylist", c, 0, <<>>, 404, Null, FALSE)
                /\ UNCHANGED cache
           ELSE /\ resp' = Response("getMasterPlaylist", c, 0, <<>>, 200, playlist, FALSE)
                /\ cache' = cacheSet(cache, MasterCacheKey(c), playlist)
    /\ UNCHANGED stats
    /\ UNCHANGED <<pipeVars, redisUp, rabbit, inflight>>

\* no master playlist request is between its reads
NoRequest == [pc |-> "idle", chapterId |-> "", availableBitrates |-> <<>>,
              clientBandwidth |-> NotGiven, preferredBitrate |-> NotGiven]

\* getMasterPlaylist up to the answer of getAvailableBitrates
getMasterPlaylistLookup(c, clientBandwidth, preferredBitrate) ==
    /\ inflight.pc = "idle"
    /\ LET availableBitrates == getAvailableBitrates(renditions, c)
       IN  IF availableBitrates = <<>>
           THEN /\ resp' = Response("getMasterPlaylist", c, 0, <<>>, 404, Null, FALSE)
                /\ UNCHANGED inflight
           ELSE /\ inflight' = [pc |-> "generating", chapterId |-> c,
                                availableBitrates |-> availableBitrates,
                                clientBandwidth |-> clientBandwidth,
                                preferredBitrate |-> preferredBitrate]
                /\ UNCHANGED resp
    /\ UNCHANGED <<cache, stats>>
    /\ UNCHANGED <<pipeVars, redisUp, rabbit>>

\* generateMasterPlaylist with its findUnique per available bitrate (a
\* bitrate whose row is gone is left out), cachePlaylist and the 200 answer
getMasterPlaylistGenerate ==
    /\ inflight.pc = "generating"
    /\ LET c == inflight.chapterId
           found(b) == \E r \in renditions : r.chapterId = c /\ r.bitrate = b
           bitrateInfos == FilterSeq(inflight.availableBitrates,
                                     {b \in SeqToSet(inflight.availableBitrates) : found(b)})
           playlist == PlaylistText(generateStreamMasterPlaylist(c, bitrateInfos,
                                       inflight.clientBandwidth, inflight.preferredBitrate))
       IN  /\ resp' = Response("getMasterPlaylist", c, 0, <<>>, 200, playlist, FALSE)
           /\ cache' = cacheSet(cache, MasterCacheKey(c), playlist)
    /\ inflight' = NoRequest
    /\ UNCHANGED stats
    /\ UNCHANGED <<pipeVars, redisUp, rabbit>>

\* a request without bandwidth and bitrate query parameters
getMasterPlaylist(c) == getMasterPlaylistFor(c, NotGiven, NotGiven)

\* config.TRANSCODING_BITRATES
TRANSCODING_BITRATES == <<64, 128, 256>>

\* HLSStreamingService.estimateBandwidth
estimateBandwidth(availableBitrates) ==
    IF availableBitrates = <<>> THEN 0
    ELSE availableBitrates[Len(availableBitrates)] * 1000

\* HLSStreamingService.getStreamingStatus: the status of the latest
\* TranscodingJob row, 'not_started' without one
getStreamingStatus(rows, tj, c) ==
    LET availableBitrates == getAvailableBitrates(rows, c)
    IN  [chapterId |-> c,
         availableBitrates |-> availableBitrates,
         transcodingStatus |-> IF tj[c].rows > 0 THEN tj[c].latest.status ELSE "not_started",
         canStream |-> Len(availableBitrates) > 0,
         estimatedBandwidth |-> estimateBandwidth(availableBitrates)]

\* ------------------------------------------------------ broker connection
maxReconnectAttempts == 10
reconnectDelay == 5000

RECURSIVE Pow2(_)
Pow2(n) == IF n = 0 THEN 1 ELSE 2 * Pow2(n - 1)

\* new RabbitMQConnection(): connected stands for connection && channel,
\* timers is the bag of the delays of the setTimeout calls not yet run,
\* tried counts the connection attempts the timers have made since the last
\* successful connect, consumers are the queues with a consumer on the
\* current channel, and started says that TranscodingWorker.start has
\* registered its consumers
NewRabbitMQConnection ==
    [connected |-> FALSE, isConnecting |-> FALSE, reconnectAttempts |-> 0,
     timers |-> EmptyBag, tried |-> 0, consumers |-> {}, started |-> FALSE]

\* the queues TranscodingWorker.start consumes from
IntakeQueues == {QueueForRoutingKey(k) : k \in {"priority", "normal", "low"}}

\* a handler that schedules a reconnect whatever the counter says
handleConnectionErrorNoCap(r) ==
    [r EXCEPT !.connected = FALSE, !.consumers = {},
              !.reconnectAttempts = @ + 1,
              !.timers = @ (+) SetToBag({reconnectDelay * Pow2(r.reconnectAttempts)})]

\* RabbitMQConnection.handleConnectionError
handleConnectionError(r) ==
    IF r.reconnectAttempts >= maxReconnectAttempts
    THEN [r EXCEPT !.connected = FALSE, !.consumers = {}]
    ELSE [r EXCEPT !.connected = FALSE, !.consumers = {},
                   !.reconnectAttempts = @ + 1,
                   !.timers = @ (+) SetToBag({reconnectDelay * Pow2(r.reconnectAttempts)})]

\* the events a lost connection emits: 'close' alone, or 'error' and 'close'
LossEvents == {<<"close">>, <<"error", "close">>}

RECURSIVE HandleEvents(_, _)
HandleEvents(r, events) ==
    IF events = <<>> THEN r ELSE HandleEvents(handleConnectionError(r), Tail(events))

\* connect() up to its first await: nothing when connected or connecting
connectBegin(r) ==
    IF r.connected \/ r.isConnecting THEN r ELSE [r EXCEPT !.isConnecting = TRUE]

\* connect() called when the service starts
StartConnect ==
    /\ ~rabbit.connected /\ ~rabbit.isConnecting
    /\ rabbit.reconnectAttempts = 0 /\ rabbit.timers = EmptyBag
    /\ rabbit' = connectBegin(rabbit)
    /\ UNCHANGED <<pipeVars, cache, stats, resp, redisUp, inflight>>

\* amqp.connect and createChannel resolve
ConnectOk ==
    /\ rabbit.isConnecting
    /\ rabbit' = [rabbit EXCEPT !.connected = TRUE, !.isConnecting = FALSE,
                                !.reconnectAttempts = 0, !.tried = 0]
    /\ UNCHANGED <<pipeVars, cache, stats, resp, redisUp, inflight>>

\* amqp.connect rejects: the catch block of connect
ConnectFail ==
    /\ rabbit.isConnecting
    /\ rabbit' = handleConnectionError([rabbit EXCEPT !.isConnecting = FALSE])
    /\ UNCHANGED <<pipeVars, cache, stats, resp, redisUp, inflight>>

\* the broker connection is lost: the handlers of its events run
ConnectionLost(events) ==
    /\ rabbit.connected
    /\ BagCardinality(rabbit.timers) + Len(events) <= MaxTimers
    /\ rabbit' = HandleEvents(rabbit, events)
    /\ UNCHANGED <<pipeVars, cache, stats, resp, redisUp, inflight>>

\* a setTimeout callback of handleConnectionError runs connect()
ReconnectTimer(delay) ==
    /\ BagIn(delay, rabbit.timers)
    /\ LET r == [rabbit EXCEPT !.timers = @ (-) SetToBag({delay})]
       IN  rabbit' = IF r.connected \/ r.isConnecting
                     THEN r
                     ELSE [connectBegin(r) EXCEPT !.tried = @ + 1]
    /\ UNCHANGED <<pipeVars, cache, stats, resp, redisUp, inflight>>

\* the three startConsumer calls of TranscodingWorker.start: channel.consume
\* on the channel of the connection that start has just made
startConsumers(r) ==
    [r EXCEPT !.consumers = IntakeQueues, !.started = TRUE]

\* TranscodingWorker.start after RabbitMQFactory.initialize has connected
StartWorker ==
    /\ rabbit.connected /\ ~rabbit.started
    /\ rabbit' = startConsumers(rabbit)
    /\ UNCHANGED <<pipeVars, cache, stats, resp, redisUp, inflight>>

NextBroker ==
    \/ StartConnect
    \/ StartWorker
    \/ ConnectOk
    \/ ConnectFail
    \/ \E events \in LossEvents : ConnectionLost(events)
    \/ \E delay \in BagToSet(rabbit.timers) : ReconnectTimer(delay)

\* -------------------------------------------------------------------- Init
InitPipe ==
    /\ iq = {}
    /\ published = 0
    /\ requested = 0
    /\ acked = {}
    /\ tjobs = [c \in Chapters |-> NoTable]
    /\ renditions = {}
    /\ bjobs = <<>>
    /\ mjobs = <<>>
    /\ os = {SourcePath(c) : c \in SourceChapters}
    /\ master = [c \in Chapters |-> <<>>]
    /\ pending = EmptyBag
    /\ deletions = <<>>
    /\ failures = 0

InitStream ==
    /\ cache = <<>>
    /\ stats = [hits |-> 0, misses |-> 0, totalRequests |-> 0]
    /\ resp = Response("none", "", 0, <<>>, 0, Null, FALSE)
    /\ redisUp = TRUE
    /\ rabbit = NewRabbitMQConnection
    /\ inflight = NoRequest

Init == InitPipe /\ InitStream

\* -------------------------------------------------------------------- Next
Next ==
    \/ \E c \in Chapters, bs \in RequestBitrates, p \in RequestPriorities : PublishRequest(c, bs, p)
    \/ \E m \in iq : processTranscodingJob(m)
    \/ \E j \in DOMAIN bjobs : BStart(j)
    \/ \E j \in DOMAIN bjobs : BCheck(j)
    \/ \E j \in DOMAIN bjobs : BPrepare(j)
    \/ \E j \in DOMAIN bjobs : BEncoderProgress(j)
    \/ \E j \in DOMAIN bjobs : BEncodeOk(j)
    \/ \E j \in DOMAIN bjobs : BEncodeFail(j)
    \/ \E j \in DOMAIN bjobs : BUpsert(j)
    \/ \E j \in DOMAIN bjobs : BReturn(j)
    \/ \E j \in DOMAIN bjobs : BCatch(j)
    \/ \E j \in DOMAIN mjobs : MStart(j)
    \/ \E j \in DOMAIN mjobs : MPoll(j)
    \/ \E j \in DOMAIN mjobs : MTimeout(j)
    \/ \E j \in DOMAIN mjobs : MGenerate(j)
    \/ \E j \in DOMAIN mjobs : MUpload(j)
    \/ \E j \in DOMAIN mjobs : MReturn(j)
    \/ \E j \in DOMAIN mjobs : MCatch(j)
    \/ \E u \in BagToSet(pending) : ApplyUpdate(u)
    \/ \E c \in Chapters : processChapterDeletion(c)

Spec == Init /\ [][Next]_vars

\* ----------------------------------------------------- the intake alone
\* The intake worker in front of a database that may fail to answer: requests
\* are published, consumed, and republished by the catch block.
NextIntake ==
    \/ \E c \in Chapters, bs \in RequestBitrates, p \in RequestPriorities : PublishRequest(c, bs, p)
    \/ \E m \in iq : processTranscodingJob(m)
    \/ \E m \in iq : processTranscodingJobFailed(m)

SpecIntake == Init /\ [][NextIntake]_vars

\* ------------------------------------------- a bitrate that always fails
\* One request for c1 at 64k, 128k and 256k is in the broker; ffmpeg fails at
\* every attempt of the 128k job and succeeds for the other two.  The workers
\* and the event handlers keep running.
PartialRequest ==
    [id |-> 1, chapter |-> "c1", bitrates |-> <<64, 128, 256>>, priority |-> "normal",
     retryCount |-> 0, queue |-> QueueForRoutingKey("normal")]

InitPartialRequest ==
    /\ iq = {PartialRequest}
    /\ published = 1
    /\ requested = Len(PartialRequest.bitrates)
    /\ acked = {}
    /\ tjobs = [c \in Chapters |-> NoTable]
    /\ renditions = {}
    /\ bjobs = <<>>
    /\ mjobs = <<>>
    /\ os = {SourcePath(c) : c \in SourceChapters}
    /\ master = [c \in Chapters |-> <<>>]
    /\ pending = EmptyBag
    /\ deletions = <<>>
    /\ failures = 0
    /\ InitStream

PartialEncodeOk(j) == j[2] # 128 /\ BEncodeOk(j)
PartialEncodeFail(j) == j[2] = 128 /\ EncoderFails(j) /\ UNCHANGED failures

NextPartial ==
    \/ \E m \in iq : processTranscodingJob(m)
    \/ \E j \in DOMAIN bjobs : BStart(j)
    \/ \E j \in DOMAIN bjobs : BCheck(j)
    \/ \E j \in DOMAIN bjobs : BPrepare(j)
    \/ \E j \in DOMAIN bjobs : PartialEncodeOk(j)
    \/ \E j \in DOMAIN bjobs : PartialEncodeFail(j)
    \/ \E j \in DOMAIN bjobs : BUpsert(j)
    \/ \E j \in DOMAIN bjobs : BReturn(j)
    \/ \E j \in DOMAIN bjobs : BCatch(j)
    \/ \E j \in DOMAIN mjobs : MStart(j)
    \/ \E j \in DOMAIN mjobs : MPoll(j)
    \/ \E j \in DOMAIN mjobs : MGenerate(j)
    \/ \E j \in DOMAIN mjobs : MUpload(j)
    \/ \E j \in DOMAIN mjobs : MReturn(j)
    \/ \E u \in BagToSet(pending) : ApplyUpdate(u)

SpecPartial == InitPartialRequest /\ [][NextPartial]_vars /\ WF_vars(NextPartial)

\* --------------------------------------------------------- the read path
\* The read path starts after the pipeline has transcoded c1 at 64k and 128k
\* and c2 at 64k: the source files, the encoder output, the rows and the
\* master playlists the jobs have written; the queues are empty again.
StreamBitrates == {64, 128}
Transcoded == {<<"c1", 64>>, <<"c1", 128>>, <<"c2", 64>>}
SegmentIds ==
    {SegmentFile(i) : i \in 0..(NumSegments - 1)}
    \cup {preloadSegmentId(c, 64, i) : c \in Chapters, i \in 0..(NumSegments - 1)}

InitTranscoded ==
    /\ iq = {}
    /\ published = 0
    /\ requested = 0
    /\ acked = {}
    /\ tjobs = [c \in Chapters |-> createTranscodingJob(NoTable, "completed", 100, NoError)]
    /\ renditions = UNION {upsertTranscodedChapter({}, t[1], t[2], <<t[1], t[2], 1>>) : t \in Transcoded}
    /\ bjobs = <<>>
    /\ mjobs = <<>>
    /\ os = {SourcePath(c) : c \in Chapters}
            \cup UNION {EncoderOutput(t[1], t[2]) : t \in Transcoded}
            \cup {MasterPath(c) : c \in Chapters}
    /\ master = [c \in Chapters |->
                    generateMasterPlaylist(getAvailableBitrates(renditions, c))]
    /\ pending = EmptyBag
    /\ deletions = <<>>
    /\ failures = 0

NextStream ==
    \/ \E c \in Chapters, b \in StreamBitrates, s \in SegmentIds : getSegment(c, b, s)
    \/ \E c \in Chapters, b \in StreamBitrates : preloadChapter(c, b)
    \/ \E c \in Chapters : getMasterPlaylist(c)
    \/ \E c \in Chapters : processChapterDeletion(c)

InitRead == InitTranscoded /\ InitStream

SpecStream == InitRead /\ [][NextStream]_vars

\* ------------------------------------- playlists, segments and a lost cache
\* the Redis connection is lost: every later call of the client throws
redisFails ==
    /\ redisUp
    /\ redisUp' = FALSE
    /\ UNCHANGED <<pipeVars, cache, stats, resp, rabbit, inflight>>

NextVariant ==
    \/ \E c \in Chapters, b \in StreamBitrates, s \in SegmentIds : getSegment(c, b, s)
    \/ \E c \in Chapters, b \in StreamBitrates : getVariantPlaylist(c, b)
    \/ \E c \in Chapters : processChapterDeletion(c)
    \/ redisFails

SpecVariant == InitRead /\ [][NextVariant]_vars

\* StreamingCacheService.resetStats: every counter back to 0
resetStats ==
    /\ stats' = [hits |-> 0, misses |-> 0, totalRequests |-> 0]
    /\ UNCHANGED <<pipeVars, cache, resp, redisUp, rabbit, inflight>>

\* cache reads of segments and playlists, hit, missing or failing, and resets
NextCounters ==
    \/ \E c \in Chapters, b \in StreamBitrates, s \in SegmentIds : getSegment(c, b, s)
    \/ \E c \in Chapters, b \in StreamBitrates : getVariantPlaylist(c, b)
    \/ redisFails
    \/ resetStats

SpecCounters == InitRead /\ [][NextCounters]_vars

\* ------------------------------------------- the recommended variant
\* Master playlist requests with every combination of the bandwidth and
\* bitrate query parameters, over every set of completed renditions of the
\* two chapters.
ClientBandwidths == {NotGiven, Given(0), Given(64000), Given(100000), Given(150000), Given(300000)}
PreferredBitrates == {NotGiven, Given(64), Given(96), Given(256)}

InitRecommend ==
    /\ iq = {}
    /\ published = 0
    /\ requested = 0
    /\ acked = {}
    /\ tjobs = [c \in Chapters |-> NoTable]
    /\ \E avail \in [Chapters -> SUBSET Bitrates] :
          /\ renditions = UNION {upsertTranscodedChapter({}, t[1], t[2], <<t[1], t[2], 1>>) :
                                    t \in {x \in Chapters \X Bitrates : x[2] \in avail[x[1]]}}
          /\ os = {SourcePath(c) : c \in Chapters}
                  \cup UNION {EncoderOutput(t[1], t[2]) :
                                t \in {x \in Chapters \X Bitrates : x[2] \in avail[x[1]]}}
    /\ bjobs = <<>>
    /\ mjobs = <<>>
    /\ master = [c \in Chapters |-> <<>>]
    /\ pending = EmptyBag
    /\ deletions = <<>>
    /\ failures = 0
    /\ InitStream

NextRecommend ==
    \E c \in Chapters, cb \in ClientBandwidths, pb \in PreferredBitrates :
        getMasterPlaylistFor(c, cb, pb)

SpecRecommend == InitRecommend /\ [][NextRecommend]_vars

\* ------------------------------------------- the user_id header of a request
\* Header values are sequences of characters; a request may carry no header.
NoHeader == [present |-> FALSE, value |-> <<>>]
Header(v) == [present |-> TRUE, value |-> v]
UserIdHeaders == {NoHeader, Header(<<>>), Header(<<" ">>), Header(<<"u">>), Header(<<" ", "u">>)}

RECURSIVE trimStart(_)
trimStart(v) == IF v # <<>> /\ Head(v) = " " THEN trimStart(Tail(v)) ELSE v

RECURSIVE trimEnd(_)
trimEnd(v) == IF v # <<>> /\ v[Len(v)] = " " THEN trimEnd(SubSeq(v, 1, Len(v) - 1)) ELSE v

\* a header check that keeps the surrounding whitespace
noTrim(v) == v

\* String.prototype.trim
trim(v) == trimEnd(trimStart(v))

\* the last component of the request path of a route
HealthSegment == <<"health">>
LastComponent(handler, s) ==
    CASE handler = "getMasterPlaylist" -> <<"master.m3u8">>
      [] handler = "getVariantPlaylist" -> <<"playlist.m3u8">>
      [] handler = "getSegment" -> s
      [] handler = "getStreamingStatus" -> <<"status">>
      [] handler = "preloadChapter" -> <<"preload">>
      [] handler = "getAnalytics" -> <<"analytics">>
      [] handler = "getHealthStatus" -> <<"health">>

\* AuthMiddleware.validateExternalService: the answer of the middleware, or
\* next() with the req.user it has set
validateExternalService(last, userId) ==
    IF last = <<"health">>
    THEN [next |-> TRUE, statusCode |-> 0, user |-> NoHeader]
    ELSE IF ~userId.present
    THEN [next |-> FALSE, statusCode |-> 401, user |-> NoHeader]
    ELSE IF Len(trim(userId.value)) = 0
    THEN [next |-> FALSE, statusCode |-> 401, user |-> NoHeader]
    ELSE [next |-> TRUE, statusCode |-> 0, user |-> Header(trim(userId.value))]

\* the bodies of the JSON answers
StatusBody(st) == [kind |-> "status", entries |-> <<>>, key |-> <<st.transcodingStatus>>]
AnalyticsBody == [kind |-> "analytics", entries |-> <<>>, key |-> <<>>]
HealthBody == [kind |-> "health", entries |-> <<>>, key |-> <<>>]

Handlers ==
    {"getMasterPlaylist", "getVariantPlaylist", "getSegment", "getStreamingStatus",
     "preloadChapter", "getAnalytics", "getHealthStatus"}

\* One request to the streaming router: the middleware, then the handler of
\* the route, which answers 401 itself when req.user.id is not set.
StreamingRequest(userId, handler, c, b, s) ==
    LET auth == validateExternalService(LastComponent(handler, s), userId)
        answer(code, content) ==
            /\ resp' = Response(handler, c, b, s, code, content, FALSE)
            /\ UNCHANGED <<cache, stats, pipeVars, redisUp, rabbit, inflight>>
    IN  IF ~auth.next THEN answer(auth.statusCode, Null)
        ELSE IF handler = "getHealthStatus" THEN answer(200, HealthBody)
        ELSE IF ~auth.user.present THEN answer(401, Null)
        ELSE CASE handler = "getMasterPlaylist" -> getMasterPlaylist(c)
               [] handler = "getVariantPlaylist" -> getVariantPlaylist(c, b)
               [] handler = "getSegment" -> getSegment(c, b, s)
               [] handler = "getStreamingStatus" ->
                      answer(200, StatusBody(getStreamingStatus(renditions, tjobs, c)))
               [] handler = "preloadChapter" -> preloadChapter(c, b)
               [] handler = "getAnalytics" -> answer(200, AnalyticsBody)

RequestSegmentIds == {SegmentFile(0), HealthSegment}
RequestedBitrates == {64}
RequestedChapters == {"c1"}

NextRequests ==
    \E userId \in UserIdHeaders, handler \in Handlers, c \in RequestedChapters,
       b \in RequestedBitrates, s \in RequestSegmentIds :
         StreamingRequest(userId, handler, c, b, s)

SpecRequests == InitRead /\ [][NextRequests]_vars

\* ------------------------------------------------- what the intake enqueues
\* Requests that name supported bitrates and the unsupported 96k, consumed
\* over every set of completed renditions of the two chapters.
EnqueueBitrates == {<<64>>, <<128>>, <<96>>, <<64, 128>>, <<96, 128>>, <<128, 96>>}

NextEnqueue ==
    \/ \E c \in Chapters, bs \in EnqueueBitrates, p \in RequestPriorities : PublishRequest(c, bs, p)
    \/ \E m \in iq : processTranscodingJob(m)

SpecEnqueue == InitRecommend /\ [][NextEnqueue]_vars

\* --------------------------------------------- deletions next to the intake
\* Deletion messages and intake messages over every set of completed
\* renditions of the two chapters.
NextDeletion ==
    \/ \E c \in Chapters, bs \in RequestBitrates, p \in RequestPriorities : PublishRequest(c, bs, p)
    \/ \E m \in iq : processTranscodingJob(m)
    \/ \E c \in Chapters : processChapterDeletion(c)

SpecDeletion == InitRecommend /\ [][NextDeletion]_vars

\* ------------------------------ a deletion during a master playlist request
\* Master playlist requests whose two reads of the TranscodedChapter table a
\* deletion may separate, over every set of completed renditions.
RaceBandwidths == {NotGiven, Given(100000)}
RacePreferred == {NotGiven, Given(64)}

NextMasterRace ==
    \/ \E c \in Chapters, cb \in RaceBandwidths, pb \in RacePreferred :
          getMasterPlaylistLookup(c, cb, pb)
    \/ getMasterPlaylistGenerate
    \/ \E c \in Chapters : processChapterDeletion(c)

SpecMasterRace == InitRecommend /\ [][NextMasterRace]_vars

\* ------------------------------------------- a request nothing is queued for
\* Next to the request of SpecPartial for c1, a request for c2 that names
\* only the unsupported 96k is in the broker.
UnsupportedRequest ==
    [id |-> 2, chapter |-> "c2", bitrates |-> <<96>>, priority |-> "normal",
     retryCount |-> 0, queue |-> QueueForRoutingKey("normal")]

InitUnsupported ==
    /\ iq = {PartialRequest, UnsupportedRequest}
    /\ published = 2
    /\ requested = Len(PartialRequest.bitrates) + Len(UnsupportedRequest.bitrates)
    /\ acked = {}
    /\ tjobs = [c \in Chapters |-> NoTable]
    /\ renditions = {}
    /\ bjobs = <<>>
    /\ mjobs = <<>>
    /\ os = {SourcePath(c) : c \in SourceChapters}
    /\ master = [c \in Chapters |-> <<>>]
    /\ pending = EmptyBag
    /\ deletions = <<>>
    /\ failures = 0
    /\ InitStream

SpecUnsupported == InitUnsupported /\ [][NextPartial]_vars /\ WF_vars(NextPartial)

\* ------------------------------------------- no intake after the deletion
\* The write path where the intake worker consumes nothing once a deletion
\* message has been processed: the jobs enqueued before it keep running.
IntakeBeforeDeletion(m) == deletions = <<>> /\ processTranscodingJob(m)

NextLateDeletion ==
    \/ \E c \in Chapters, bs \in RequestBitrates, p \in RequestPriorities : PublishRequest(c, bs, p)
    \/ \E m \in iq : IntakeBeforeDeletion(m)
    \/ \E j \in DOMAIN bjobs : BStart(j)
    \/ \E j \in DOMAIN bjobs : BCheck(j)
    \/ \E j \in DOMAIN bjobs : BPrepare(j)
    \/ \E j \in DOMAIN bjobs : BEncoderProgress(j)
    \/ \E j \in DOMAIN bjobs : BEncodeOk(j)
    \/ \E j \in DOMAIN bjobs : BEncodeFail(j)
    \/ \E j \in DOMAIN bjobs : BUpsert(j)
    \/ \E j \in DOMAIN bjobs : BReturn(j)
    \/ \E j \in DOMAIN bjobs : BCatch(j)
    \/ \E j \in DOMAIN mjobs : MStart(j)
    \/ \E j \in DOMAIN mjobs : MPoll(j)
    \/ \E j \in DOMAIN mjobs : MTimeout(j)
    \/ \E j \in DOMAIN mjobs : MGenerate(j)
    \/ \E j \in DOMAIN mjobs : MUpload(j)
    \/ \E j \in DOMAIN mjobs : MReturn(j)
    \/ \E j \in DOMAIN mjobs : MCatch(j)
    \/ \E u \in BagToSet(pending) : ApplyUpdate(u)
    \/ \E c \in Chapters : processChapterDeletion(c)

SpecLateDeletion == Init /\ [][NextLateDeletion]_vars

\* ------------------------------------------------ intake across a reconnect
\* Requests for c1 at 64k are published on the live channel and delivered to
\* the consumer of their queue, while the connection is lost and restored.
publishOnChannel(c, bs, p) == rabbit.connected /\ PublishRequest(c, bs, p)

consumeTranscodingJobs(m) == m.queue \in rabbit.consumers /\ processTranscodingJob(m)

NextReconnect ==
    \/ StartConnect
    \/ StartWorker
    \/ ConnectOk
    \/ ConnectFail
    \/ \E events \in LossEvents : ConnectionLost(events)
    \/ \E delay \in BagToSet(rabbit.timers) : ReconnectTimer(delay)
    \/ \E p \in RequestPriorities : publishOnChannel("c1", <<64>>, p)
    \/ \E m \in iq : consumeTranscodingJobs(m)

SpecReconnect == Init /\ [][NextReconnect]_vars /\ WF_vars(NextReconnect)

\* the priorities publishTranscodingJob accepts: 'low' | 'normal' | 'high'
PublishPriorities == {"high", "normal", "low"}

\* callers publishing with every priority, and the three intake consumers
NextRouting ==
    \/ \E c \in Chapters, bs \in RequestBitrates, p \in PublishPriorities : PublishRequest(c, bs, p)
    \/ \E m \in iq : processTranscodingJob(m)
    \/ \E m \in iq : processTranscodingJobFailed(m)

SpecRouting == Init /\ [][NextRouting]_vars

SpecBroker == Init /\ [][NextBroker]_vars

TypeOK ==
    /\ published \in 0..(MaxIntake * (MaxRetryCount + 1))
    /\ \A c \in Chapters :
          tjobs[c].latest.status \in {"none", "pending", "processing", "completed", "failed"}
    /\ BagCardinality(pending) <= MaxPending

\* ================================================================== claims
Quiet == failures = 0 /\ deletions = <<>>

\* C1: at most one Rendition row exists per (chapter, bitrate); the row of a
\* pair is the one its first completion created, and it carries the last
\* writer.
C1_OneRowPerRendition ==
    \A c \in Chapters, b \in Bitrates :
        /\ Cardinality(RowsOf(renditions, c, b)) <= 1
        /\ \A r \in RowsOf(renditions, c, b) :
              \A j \in {r.id, r.updatedBy} :
                  /\ j \in DOMAIN bjobs
                  /\ j[1] = c /\ j[2] = b
                  /\ bjobs[j].pc \in {"returning", "completed"}

\* two jobs of one (chapter, bitrate) have both written the row
C1_Witness ==
    \E r \in renditions : r.id # r.updatedBy /\ r.id[1] = r.updatedBy[1] /\ r.id[2] = r.updatedBy[2]

\* C2: a completed Rendition row has its playlist and at least one segment in
\* the object store, and was written by a job whose encoder has run.
C2_CompletedHasArtifacts ==
    \A r \in renditions :
        r.status = "completed" =>
            /\ PlaylistUrl(r.chapterId, r.bitrate) \in os
            /\ \E k \in listFiles(os, SegmentsPath(r.chapterId, r.bitrate)) : EndsWithTs(k)
            /\ bjobs[r.updatedBy].runs >= 1

C2_Witness ==
    \E r \in renditions : r.status = "completed" /\ r.bitrate = 128

\* C3: a master playlist in the object store lists exactly the completed
\* bitrates of its chapter, ascending (no failure and no deletion involved).
C3_MasterListsCompleted ==
    Quiet =>
        \A c \in Chapters :
            MasterPath(c) \in os =>
                ListedVariants(master[c]) = SortAscending(CompletedBitrates(renditions, c))

\* C4: the latest TranscodingJob row of a chapter is completed exactly when
\* its progress is 100 and completed_at is set (no failure, no deletion).
C4_LatestRowConsistent ==
    Quiet =>
        \A c \in Chapters :
            tjobs[c].rows > 0 =>
                (tjobs[c].latest.status = "completed"
                    <=> (tjobs[c].latest.progress = 100 /\ tjobs[c].latest.completedAt))

\* C5: consuming a request whose bitrates are all completed enqueues no job,
\* creates no TranscodingJob row, starts no encoder work, and acks the message.
C5_IntakeDedup ==
    [][\A m \in iq :
          (processTranscodingJob(m)
             /\ SeqToSet(m.bitrates) \subseteq CompletedBitrates(renditions, m.chapter))
          => /\ UNCHANGED <<tjobs, bjobs, mjobs, os, renditions, pending>>
             /\ m.id \in acked'
             /\ m \notin iq']_vars

\* a message was consumed and acked without any job enqueued for it
C5_Witness ==
    \E id \in acked :
        /\ \A j \in DOMAIN bjobs : bjobs[j].msg # id
        /\ \A j \in DOMAIN mjobs : mjobs[j].msg # id
        /\ \E c \in Chapters : tjobs[c].rows = 1 /\ CompletedBitrates(renditions, c) # {}

\* C6: with the same request published twice and no failure or deletion, the
\* encoder runs at most once per (chapter, bitrate).
C6_EncoderOncePerRendition ==
    Quiet =>
        \A c \in Chapters, b \in Bitrates :
            Cardinality({j \in DOMAIN bjobs : j[1] = c /\ j[2] = b /\ bjobs[j].runs > 0}) <= 1

\* C7: a 200 response of GetSegment(c, b, s) for a segment file name s carries
\* the bytes of the object at {segments_path of (c, b)}/{s}.
C7_SegmentBytesOfOwnRendition ==
    (resp.op = "getSegment" /\ resp.statusCode = 200
        /\ resp.segmentId \in {SegmentFile(i) : i \in 0..(NumSegments - 1)})
    => resp.content = Content(<<SegmentsPath(resp.chapterId, resp.bitrate), resp.segmentId>>)

\* C8: processing ChapterDeletion{c} leaves no Rendition row of c, and a
\* GetMasterPlaylist(c) after it answers 404 whatever the cache and the object
\* store hold.
C8_DeletedThenMaster404 ==
    [][\A c \in Chapters :
          /\ processChapterDeletion(c) => {r \in renditions' : r.chapterId = c} = {}
          /\ (getMasterPlaylist(c) /\ c \in SeqToSet(deletions))
                => (resp'.statusCode = 404 /\ resp'.content = Null)]_vars

\* 404 for a deleted chapter whose playlist is cached and whose artifacts are
\* in the store
C8_Witness ==
    /\ resp.op = "getMasterPlaylist"
    /\ resp.statusCode = 404
    /\ resp.chapterId \in SeqToSet(deletions)
    /\ MasterCacheKey(resp.chapterId) \in DOMAIN cache
    /\ MasterPath(resp.chapterId) \in os
    /\ PlaylistUrl(resp.chapterId, 64) \in os

\* C9: after ChapterDeletion{c} the object store has no artifact under
\* bit_transcode/{c}/ and the cache has no playlist or segment entry of c.
C9_DeletedChapterPurged ==
    \A c \in SeqToSet(deletions) :
        /\ \A k \in os : ~(k[1][1] = "bit_transcode" /\ k[1][2] = c)
        /\ MasterCacheKey(c) \notin DOMAIN cache
        /\ \A b \in StreamBitrates, i \in 0..(NumSegments - 1) :
              SegmentCacheKey(<<c, "_", b, "_", Pad3(i)>>) \notin DOMAIN cache

\* C10: PreloadChapter(c, b) on a completed rendition with N segments in the
\* store leaves the keys stream:segment:{c}_{b}_{NNN}, NNN = 000..N-1, in the
\* cache; a GetSegment for such an id that is cached is a hit: 200 with the
\* segment's bytes, hits + 1, no miss, no read of the object store.
C10_PreloadThenHits ==
    [][\A c \in Chapters, b \in StreamBitrates :
          LET n == Cardinality({k \in listFiles(os, SegmentsPath(c, b)) : EndsWithTs(k)})
              id(i) == <<c, "_", b, "_", Pad3(i)>>
              key(i) == <<"stream:segment:", id(i)>>
          IN  b \in CompletedBitrates(renditions, c) =>
                /\ preloadChapter(c, b) =>
                      \A i \in 0..(n - 1) :
                          /\ key(i) \in DOMAIN cache'
                          /\ FromBase64(cache'[key(i)]) = Content(ArtifactKey(c, b, SegmentFile(i)))
                /\ \A i \in 0..(n - 1) :
                      (getSegment(c, b, id(i)) /\ key(i) \in DOMAIN cache)
                      => /\ resp'.statusCode = 200
                         /\ resp'.content = FromBase64(cache[key(i)])
                         /\ ~resp'.downloaded
                         /\ stats'.hits = stats.hits + 1
                         /\ stats'.misses = stats.misses
                         /\ cache' = cache]_vars

\* N requests for the N preloaded ids of a rendition, all of them hits
C10_Witness ==
    /\ stats.hits = NumSegments
    /\ stats.misses = 0
    /\ stats.totalRequests = NumSegments
    /\ resp.op = "getSegment"
    /\ resp.statusCode = 200
    /\ ~resp.downloaded
    /\ resp.segmentId = preloadSegmentId(resp.chapterId, resp.bitrate, NumSegments - 1)
    /\ \A i \in 0..(NumSegments - 1) :
          SegmentCacheKey(preloadSegmentId(resp.chapterId, resp.bitrate, i)) \in DOMAIN cache

\* C11: preload is idempotent.  With the object store unchanged, a
\* PreloadChapter(c, b) that directly follows a PreloadChapter(c, b) leaves the
\* cache as it was, and applying the preload loop to the cache a preload has
\* produced gives that cache again: same segment keys, same bytes per key.
C11_PreloadIdempotent ==
    [][\A c \in Chapters, b \in StreamBitrates :
          LET n == Cardinality({k \in listFiles(os, SegmentsPath(c, b)) : EndsWithTs(k)})
          IN  (preloadChapter(c, b) /\ b \in CompletedBitrates(renditions, c))
              => /\ os' = os
                 /\ DOMAIN preloadChapterSegments(cache', os', c, b, n) = DOMAIN cache'
                 /\ \A k \in DOMAIN cache' :
                       FromBase64(preloadChapterSegments(cache', os', c, b, n)[k]) = FromBase64(cache'[k])
                 /\ (resp.op = "preloadChapter" /\ resp.statusCode = 200
                        /\ resp.chapterId = c /\ resp.bitrate = b)
                    => cache' = cache]_vars

\* a preload of a rendition has run and its segment keys are in the cache, so
\* that the next preload of it is the second one
C11_Witness ==
    /\ resp.op = "preloadChapter"
    /\ resp.statusCode = 200
    /\ resp.bitrate = 128
    /\ \A i \in 0..(NumSegments - 1) :
          SegmentCacheKey(preloadSegmentId(resp.chapterId, 128, i)) \in DOMAIN cache

\* C12: in the scenario where 128k always fails, the system eventually stays
\* in a state where (c1, 64) and (c1, 256) are completed, (c1, 128) is not, and
\* the latest TranscodingJob row of c1 is failed with an error message.
C12_PartialEndsFailed ==
    <>[](/\ {64, 256} \subseteq CompletedBitrates(renditions, "c1")
         /\ 128 \notin CompletedBitrates(renditions, "c1")
         /\ tjobs["c1"].latest.status = "failed"
         /\ tjobs["c1"].latest.errorMessage # NoError)

\* C13: partial success.  A failing attempt of a bitrate job changes no
\* Rendition row; with 128k failing for good the 64k and 256k jobs still
\* complete; and once a bitrate of the master job's variantBitrates is
\* completed, the master job eventually has uploaded
\* bit_transcode/{c}/master.m3u8 and returned after job.progress(100).
C13_PartialSuccess ==
    /\ [][\A j \in DOMAIN bjobs :
            (bjobs[j].pc \in {"encoding", "throwing"}
                /\ bjobs'[j] # bjobs[j]
                /\ bjobs'[j].pc \in {"throwing", "waiting", "failed"})
            => renditions' = renditions]_vars
    /\ <>(\A b \in {64, 256} :
            /\ b \in CompletedBitrates(renditions, "c1")
            /\ \E j \in DOMAIN bjobs : j[2] = b /\ bjobs[j].pc = "completed")
    /\ (\E j \in DOMAIN mjobs :
            CompletedBitrates(renditions, j[1]) \cap SeqToSet(mjobs[j].variantBitrates) # {})
        ~> (\E j \in DOMAIN mjobs :
                /\ mjobs[j].pc = "completed"
                /\ MasterPath(j[1]) \in os
                /\ master[j[1]] # <<>>)

\* the 128k job has failed for good, the other two renditions are completed
\* and the master job has returned with the playlist uploaded
C13_Witness ==
    /\ \E j \in DOMAIN bjobs :
          j[2] = 128 /\ bjobs[j].pc = "failed" /\ bjobs[j].attemptsMade = BULL_MAX_ATTEMPTS
    /\ CompletedBitrates(renditions, "c1") = {64, 256}
    /\ \E j \in DOMAIN mjobs : mjobs[j].pc = "completed" /\ MasterPath(j[1]) \in os

\* C14: when the master job's wait ends without a completed bitrate, the job
\* throws: the run writes no master.m3u8, the catch block sets the latest
\* TranscodingJob row of the chapter to failed with the error message, and
\* Bull counts the attempt as failed and emits 'failed'.
C14_MasterTimeoutFails ==
    [][\A j \in DOMAIN mjobs :
          /\ MTimeout(j)
                => /\ mjobs[j].pc = "sleeping"
                   /\ mjobs'[j].pc = "throwing"
                   /\ mjobs'[j].err = NoBitrateCompleted
                   /\ os' = os /\ master' = master /\ tjobs' = tjobs
          /\ (MCatch(j) /\ mjobs[j].err = NoBitrateCompleted)
                => /\ tjobs'[j[1]].rows > 0
                   /\ tjobs'[j[1]].latest.status = "failed"
                   /\ tjobs'[j[1]].latest.completedAt
                   /\ tjobs'[j[1]].latest.errorMessage = NoBitrateCompleted
                   /\ mjobs'[j].attemptsMade = mjobs[j].attemptsMade + 1
                   /\ mjobs'[j].pc \in {"waiting", "failed"}
                   /\ BagIn(FailedEvent(j[1], NoBitrateCompleted), pending')
                   /\ os' = os /\ master' = master]_vars

\* a master job has timed out: its attempt is counted, the row is failed
\* with the message and the chapter has no master playlist
C14_Witness ==
    \E j \in DOMAIN mjobs :
        /\ mjobs[j].err = NoBitrateCompleted
        /\ mjobs[j].attemptsMade = 1
        /\ tjobs[j[1]].latest.status = "failed"
        /\ tjobs[j[1]].latest.errorMessage = NoBitrateCompleted
        /\ MasterPath(j[1]) \notin os

\* C15: an intake message is acked only by a step that processed it
\* successfully; a message whose processing failed stays with the broker (it
\* is requeued, or at least a copy of the request is queued again) and is
\* never acked and lost.
C15_AckOnlyOnSuccess ==
    [][\A m \in iq :
          (m.id \in acked' /\ m.id \notin acked)
          => \/ processTranscodingJob(m)
             \/ m \in iq'
             \/ \E r \in iq' \ iq : r.chapter = m.chapter /\ r.bitrates = m.bitrates]_vars

C17_StatusTerminal ==
    [][\A c \in Chapters :
          (Quiet /\ tjobs[c].latest.status \in {"completed", "failed"}
                 /\ tjobs'[c].rows = tjobs[c].rows)
          => tjobs'[c].latest.status = tjobs[c].latest.status]_vars

\* C18: a TranscodingJob row has completed_at set if and only if its status
\* is completed or failed (shown without any failure or deletion).
C18_CompletedAtIffTerminal ==
    Quiet =>
        \A c \in Chapters :
            tjobs[c].rows > 0 =>
                (tjobs[c].latest.completedAt <=> tjobs[c].latest.status \in {"completed", "failed"})

\* the intake message that created the latest row of the chapter
LatestIntake(c) ==
    CHOOSE n \in {bjobs[j].msg : j \in {k \in DOMAIN bjobs : k[1] = c}} :
        \A j \in DOMAIN bjobs : j[1] = c => bjobs[j].msg <= n

\* C19: the latest TranscodingJob row of a chapter is completed only when
\* every bitrate dispatched by its intake has a completed Rendition and a
\* bitrate job that is no longer waiting or active (no failure, no deletion).
C19_CompletedOnlyWhenAllDone ==
    Quiet =>
        \A c \in Chapters :
            (tjobs[c].rows > 0 /\ tjobs[c].latest.status = "completed")
            => \A j \in DOMAIN bjobs :
                  (j[1] = c /\ bjobs[j].msg = LatestIntake(c))
                  => /\ j[2] \in CompletedBitrates(renditions, c)
                     /\ bjobs[j].pc \in {"returning", "completed"}

Highest(S) == CHOOSE x \in S : \A y \in S : y <= x
Lowest(S) == CHOOSE x \in S : \A y \in S : x <= y

\* C21: the variant GetMasterPlaylist marks as recommended is the preferred
\* bitrate if it is available; else, if a client bandwidth is given, the
\* highest available b with b * 1000 <= bandwidth (the lowest available b if
\* none fits); else the median of the available bitrates.
C21_RecommendedVariant ==
    [][\A c \in Chapters, cb \in ClientBandwidths, pb \in PreferredBitrates :
          LET avail == CompletedBitrates(renditions, c)
              fits == {b \in avail : b * 1000 <= cb.value}
              sorted == SortAscending(avail)
              expected == IF pb.given /\ pb.value \in avail THEN pb.value
                          ELSE IF cb.given
                               THEN IF fits # {} THEN Highest(fits) ELSE Lowest(avail)
                               ELSE sorted[(Len(sorted) \div 2) + 1]
              entries == resp'.content.entries
          IN  (getMasterPlaylistFor(c, cb, pb) /\ avail # {})
              => \A i \in 1..Len(entries) :
                    entries[i].recommended <=> (entries[i].bandwidth = expected * 1000)]_vars

\* C22: GetVariantPlaylist(c, b) and GetSegment(c, b, s) answer 404 without
\* content whenever (c, b) has no completed Rendition, whatever the cache
\* holds for it, and leave the cache as it is.
C22_NotCompletedIs404 ==
    [][\A c \in Chapters, b \in StreamBitrates :
          b \notin CompletedBitrates(renditions, c)
          => /\ getVariantPlaylist(c, b)
                   => (resp'.statusCode = 404 /\ resp'.content = Null /\ cache' = cache)
             /\ \A s \in SegmentIds :
                   getSegment(c, b, s)
                   => (resp'.statusCode = 404 /\ resp'.content = Null /\ cache' = cache)]_vars

\* a 404 for the playlist of a deleted chapter's rendition while the cache
\* holds that playlist and a segment, and the files are in the store
C22_Witness ==
    /\ resp.op = "getVariantPlaylist"
    /\ resp.statusCode = 404
    /\ resp.chapterId \in SeqToSet(deletions)
    /\ redisUp
    /\ VariantCacheKey(resp.chapterId, resp.bitrate) \in DOMAIN cache
    /\ SegmentCacheKey(SegmentFile(0)) \in DOMAIN cache
    /\ PlaylistUrl(resp.chapterId, resp.bitrate) \in os

\* C23: GetStreamingStatus(c) reports partial when at least one but not all
\* configured bitrates of c are completed, and the status of the latest
\* TranscodingJob row otherwise (not_started without a row); can_stream is
\* true exactly when a completed Rendition exists.
C23_StreamingStatus ==
    \A c \in Chapters :
        LET st == getStreamingStatus(renditions, tjobs, c)
            done == CompletedBitrates(renditions, c)
        IN  /\ st.transcodingStatus =
                  IF done # {} /\ done # SeqToSet(TRANSCODING_BITRATES) THEN "partial"
                  ELSE IF tjobs[c].rows = 0 THEN "not_started"
                  ELSE tjobs[c].latest.status
            /\ st.canStream <=> done # {}

\* C24: a request to a streaming route other than the health route that
\* carries no user_id header, or an empty or whitespace-only one, is answered
\* 401 without content and without touching the cache, also when the last
\* component of its path is 'health'.
C24_Unauthenticated401 ==
    [][\A userId \in {NoHeader, Header(<<>>), Header(<<" ">>)},
         handler \in Handlers \ {"getHealthStatus"}, c \in RequestedChapters,
         b \in RequestedBitrates, s \in RequestSegmentIds :
           StreamingRequest(userId, handler, c, b, s) =>
               /\ resp'.statusCode = 401
               /\ resp'.content = Null
               /\ cache' = cache]_vars

\* a segment request whose segment id is 'health' has been answered 401
C24_Witness ==
    /\ resp.op = "getSegment"
    /\ resp.segmentId = HealthSegment
    /\ resp.statusCode = 401
    /\ resp.chapterId = "c1" /\ resp.bitrate = 64
    /\ <<"c1", 64>> \in {<<r.chapterId, r.bitrate>> : r \in renditions}

\* C25: once every cache call fails, GetSegment for a segment that is in the
\* object store under a completed rendition answers 200 with the bytes of
\* that object, and GetVariantPlaylist for a completed rendition answers 200
\* with the playlist generated from the object store.
C25_CacheFailuresNonFatal ==
    [][\A c \in Chapters, b \in StreamBitrates :
          (~redisUp /\ b \in CompletedBitrates(renditions, c))
          => LET row == CHOOSE r \in RowsOf(renditions, c, b) : TRUE
             IN  /\ getVariantPlaylist(c, b)
                       => /\ resp'.statusCode = 200
                          /\ resp'.content = generateVariantPlaylist(os, row)
                          /\ resp'.content.entries # <<>>
                 /\ \A s \in SegmentIds :
                       (<<row.segmentsPath, s>> \in os /\ getSegment(c, b, s))
                       => /\ resp'.statusCode = 200
                          /\ resp'.content = Content(<<row.segmentsPath, s>>)]_vars

\* a segment served from the object store after the cache was lost, although
\* the cache had never held it
C25_Witness ==
    /\ ~redisUp
    /\ resp.op = "getSegment"
    /\ resp.statusCode = 200
    /\ resp.downloaded
    /\ resp.content = Content(<<SegmentsPath(resp.chapterId, resp.bitrate), resp.segmentId>>)
    /\ SegmentCacheKey(resp.segmentId) \notin DOMAIN cache

\* C26: a bitrate job whose source file is absent from the object store is
\* failed for good by its first attempt: it has made at most one attempt,
\* and after that attempt it is failed and never waits for another one.
C26_InputMissingNotRetried ==
    \A j \in DOMAIN bjobs :
        SourcePath(j[1]) \notin os
        => /\ bjobs[j].attemptsMade <= 1
           /\ bjobs[j].attemptsMade = 1 => bjobs[j].pc = "failed"

\* C27: the bitrate job whose encoder fails at every attempt makes at most
\* BULL_MAX_ATTEMPTS attempts and is failed exactly when it has made them
\* all, and it stays failed; every failing encoder run and every catch block
\* of an attempt leaves the chapter's latest TranscodingJob row failed with
\* an error message; no completed Rendition row is ever written for its
\* (chapter, bitrate); and the job does end up failed.
C27_FailingJobBounded ==
    /\ [](\A j \in DOMAIN bjobs :
            j[2] = 128
            => /\ bjobs[j].attemptsMade <= BULL_MAX_ATTEMPTS
               /\ bjobs[j].runs <= BULL_MAX_ATTEMPTS
               /\ bjobs[j].pc = "failed" <=> bjobs[j].attemptsMade = BULL_MAX_ATTEMPTS
               /\ 128 \notin CompletedBitrates(renditions, j[1]))
    /\ [][\A j \in DOMAIN bjobs :
            /\ (j[2] = 128 /\ bjobs[j].pc = "failed") => bjobs'[j] = bjobs[j]
            /\ (j[2] = 128 /\ (PartialEncodeFail(j) \/ BCatch(j)))
                  => /\ tjobs'[j[1]].rows > 0
                     /\ tjobs'[j[1]].latest.status = "failed"
                     /\ tjobs'[j[1]].latest.errorMessage # NoError]_vars
    /\ <>[](\E j \in DOMAIN bjobs : j[2] = 128 /\ bjobs[j].pc = "failed")

\* the 128k job has failed for good after three encoder runs, and the latest
\* row of its chapter is failed with the message of the last attempt
C27_Witness ==
    \E j \in DOMAIN bjobs :
        /\ j[2] = 128
        /\ bjobs[j].pc = "failed"
        /\ bjobs[j].runs = BULL_MAX_ATTEMPTS
        /\ bjobs[j].attemptsMade = BULL_MAX_ATTEMPTS
        /\ tjobs[j[1]].latest.status = "failed"
        /\ tjobs[j[1]].latest.errorMessage = SingleBitrateFailed(EncoderError)
        /\ 128 \notin CompletedBitrates(renditions, j[1])

\* C28: no two active jobs write the same object-store keys: at most one
\* bitrate job at a time runs the encoder for a (chapter, bitrate), whose
\* output goes to bit_transcode/{c}/{b}k/, and at most one master job at a
\* time is uploading bit_transcode/{c}/master.m3u8 of a chapter.
C28_OneWriterPerKey ==
    /\ \A c \in Chapters, b \in Bitrates :
          Cardinality({j \in DOMAIN bjobs :
                          j[1] = c /\ j[2] = b /\ bjobs[j].pc = "encoding"}) <= 1
    /\ \A c \in Chapters :
          Cardinality({j \in DOMAIN mjobs : j[1] = c /\ mjobs[j].pc = "uploading"}) <= 1

\* C29: the reconnect timers between two successful connects make at most
\* ten connection attempts; the attempt counter never exceeds ten and a
\* successful connect resets it to 0; the timer scheduled for attempt k has
\* the delay 5 s * 2^(k-1); and at the cap no further timer is scheduled.
\* The handlers of 'error' and 'close' may both run for one loss.
C29_ReconnectBounded ==
    /\ [](/\ rabbit.tried <= maxReconnectAttempts
          /\ rabbit.reconnectAttempts <= maxReconnectAttempts)
    /\ [][/\ (rabbit'.connected /\ ~rabbit.connected) => rabbit'.reconnectAttempts = 0
          /\ rabbit.reconnectAttempts = maxReconnectAttempts
                => BagCardinality(rabbit'.timers) <= BagCardinality(rabbit.timers)
          /\ rabbit'.reconnectAttempts > rabbit.reconnectAttempts
                => /\ BagCardinality(rabbit'.timers) - BagCardinality(rabbit.timers)
                         = rabbit'.reconnectAttempts - rabbit.reconnectAttempts
                   /\ \A k \in (rabbit.reconnectAttempts + 1)..rabbit'.reconnectAttempts :
                         CopiesIn(5000 * Pow2(k - 1), rabbit'.timers)
                            > CopiesIn(5000 * Pow2(k - 1), rabbit.timers)]_vars

\* C30: when the intake worker consumes a request whose bitrates are not all
\* completed, it creates one TranscodingJob row (processing, progress 0) for
\* the chapter and adds one waiting job to the queue of every supported
\* bitrate that is requested and not completed, and no other bitrate job:
\* none for a completed bitrate, and an unsupported bitrate costs only its
\* own job.
C30_EnqueuesRemaining ==
    [][\A m \in iq :
          LET c == m.chapter
              todo == SeqToSet(m.bitrates) \ CompletedBitrates(renditions, c)
              added == DOMAIN bjobs' \ DOMAIN bjobs
          IN  (processTranscodingJob(m) /\ todo # {})
              => /\ tjobs'[c].rows = tjobs[c].rows + 1
                 /\ tjobs'[c].latest.status = "processing"
                 /\ tjobs'[c].latest.progress = 0
                 /\ \A d \in Chapters \ {c} : tjobs'[d] = tjobs[d]
                 /\ \A j \in added : j[1] = c /\ bjobs'[j].pc = "waiting" /\ bjobs'[j].msg = m.id
                 /\ \A j \in DOMAIN bjobs : bjobs'[j] = bjobs[j]
                 /\ \A b \in Bitrates \cup {96} :
                       Cardinality({j \in added : j[2] = b})
                          = IF b \in todo \cap {64, 128, 256} THEN 1 ELSE 0]_vars

\* the request [96, 128] has been consumed: one row, a 128k job and no 96k job
C30_Witness ==
    \E j \in DOMAIN mjobs :
        /\ mjobs[j].variantBitrates = <<96, 128>>
        /\ mjobs[j].msg \in acked
        /\ \E k \in DOMAIN bjobs : k[1] = j[1] /\ k[2] = 128 /\ bjobs[k].msg = mjobs[j].msg
        /\ ~\E k \in DOMAIN bjobs : k[2] = 96
        /\ tjobs[j[1]].rows = 1
        /\ tjobs[j[1]].latest.status = "processing"

\* C31: consuming an intake message enqueues exactly one master job (delay
\* 5 s, variantBitrates = the requested bitrates that are not completed) when
\* it enqueued at least one bitrate job and none otherwise, and every bitrate
\* of the master job's variantBitrates has a bitrate job of that message.
C31_MasterJobPerIntake ==
    [][\A m \in iq :
          LET c == m.chapter
              todo == SeqToSet(m.bitrates) \ CompletedBitrates(renditions, c)
              added == DOMAIN bjobs' \ DOMAIN bjobs
              addedMaster == DOMAIN mjobs' \ DOMAIN mjobs
          IN  processTranscodingJob(m)
              => /\ Cardinality(addedMaster) = IF added # {} THEN 1 ELSE 0
                 /\ \A j \in DOMAIN mjobs : mjobs'[j] = mjobs[j]
                 /\ \A j \in addedMaster :
                       /\ j[1] = c
                       /\ mjobs'[j].pc = "waiting"
                       /\ mjobs'[j].delay = 5000
                       /\ SeqToSet(mjobs'[j].variantBitrates) = todo
                       /\ \A b \in SeqToSet(mjobs'[j].variantBitrates) :
                             \E k \in added : k[1] = c /\ k[2] = b]_vars

\* C32: a bitrate job whose findUnique finds the completed Rendition of its
\* (chapter, bitrate) reports progress 100 and returns: it does not stage the
\* input or run the encoder, and neither that step nor its return changes
\* the object store, the Rendition rows or the TranscodingJob rows.
C32_ShortCircuit ==
    [][\A j \in DOMAIN bjobs :
          /\ (BCheck(j) /\ j[2] \in CompletedBitrates(renditions, j[1]))
                => /\ bjobs'[j].pc = "returning"
                   /\ bjobs'[j].runs = bjobs[j].runs
                   /\ pending' = Emit(pending, ProgressEvent(j[1], 100))
                   /\ os' = os /\ renditions' = renditions /\ tjobs' = tjobs
          /\ (BReturn(j) /\ bjobs[j].runs = 0)
                => /\ bjobs'[j].pc = "completed"
                   /\ bjobs'[j].runs = 0
                   /\ os' = os /\ renditions' = renditions /\ tjobs' = tjobs]_vars

\* a job that completed without an encoder run, next to the job whose run
\* wrote the Rendition row
C32_Witness ==
    \E j \in DOMAIN bjobs :
        /\ bjobs[j].pc = "completed"
        /\ bjobs[j].runs = 0
        /\ bjobs[j].attemptsMade = 0
        /\ \E r \in RowsOf(renditions, j[1], j[2]) : r.status = "completed"
        /\ \E k \in DOMAIN bjobs : k # j /\ k[1] = j[1] /\ k[2] = j[2] /\ bjobs[k].runs = 1

\* the three digits of segment_NNN.ts compared as text
NameBefore(u, v) ==
    \/ u[2][1] < v[2][1]
    \/ u[2][1] = v[2][1] /\ u[2][2] < v[2][2]
    \/ u[2][1] = v[2][1] /\ u[2][2] = v[2][2] /\ u[2][3] < v[2][3]

\* C33: for a completed rendition, GetVariantPlaylist on a cache miss answers
\* 200 with a playlist that lists exactly the .ts objects under the
\* rendition's segmentsPath, once each, in lexicographic order of their
\* names, and ends with #EXT-X-ENDLIST; on a cache hit it answers 200 with
\* the text cached under the key of (c, b), unchanged.
C33_VariantPlaylistContent ==
    [][\A c \in Chapters, b \in StreamBitrates :
          (getVariantPlaylist(c, b) /\ b \in CompletedBitrates(renditions, c))
          => LET row == CHOOSE r \in RowsOf(renditions, c, b) : TRUE
                 key == VariantCacheKey(c, b)
                 hit == redisUp /\ key \in DOMAIN cache /\ Truthy(cache[key])
                 names == {k[2] : k \in {o \in os : o[1] = row.segmentsPath /\ EndsWithTs(o)}}
                 e == resp'.content.entries
             IN  /\ resp'.statusCode = 200
                 /\ IF hit
                    THEN resp'.content = FromBase64(cache[key]) /\ cache' = cache
                    ELSE /\ resp'.content.kind = "playlist"
                         /\ Len(e) = Cardinality(names) + 1
                         /\ {e[i].uri : i \in 1..(Len(e) - 1)} = names
                         /\ \A i, j \in 1..(Len(e) - 1) : i < j => NameBefore(e[i].uri, e[j].uri)
                         /\ e[Len(e)].uri = <<"#EXT-X-ENDLIST">>]_vars

\* a playlist answered from the cache after an earlier request generated it
C33_Witness ==
    /\ resp.op = "getVariantPlaylist"
    /\ resp.statusCode = 200
    /\ ~resp.downloaded
    /\ redisUp
    /\ resp.content = FromBase64(cache[VariantCacheKey(resp.chapterId, resp.bitrate)])
    /\ Len(resp.content.entries) = NumSegments + 1
    /\ resp.content.entries[1].uri = SegmentFile(0)

\* C34: processing ChapterDeletion{c} leaves no Rendition row of c, leaves
\* the Rendition rows of every other chapter and all TranscodingJob rows as
\* they were, and changes nothing at all when c has no Rendition row.
C34_DeletionFrame ==
    [][\A c \in Chapters :
          processChapterDeletion(c)
          => /\ {r \in renditions' : r.chapterId = c} = {}
             /\ {r \in renditions' : r.chapterId # c} = {r \in renditions : r.chapterId # c}
             /\ tjobs' = tjobs
             /\ {r \in renditions : r.chapterId = c} = {}
                   => /\ renditions' = renditions
                      /\ UNCHANGED <<iq, acked, bjobs, mjobs, os, master, pending, cache>>]_vars

\* the rows of a transcoded chapter are gone, its files and its TranscodingJob
\* row are still there, and the other chapter still has its rows
C34_Witness ==
    /\ deletions # <<>>
    /\ LET c == deletions[1]
       IN  /\ {r \in renditions : r.chapterId = c} = {}
           /\ PlaylistUrl(c, 64) \in os
           /\ tjobs[c].rows > 0
           /\ \E r \in renditions : r.chapterId # c /\ r.status = "completed"

\* C35: a 200 answer of GetMasterPlaylist lists at least one variant and
\* marks exactly one of the listed variants with RESOLUTION=0x0, also when a
\* ChapterDeletion is processed between the lookup of the available
\* bitrates and the row lookups of generateMasterPlaylist.
C35_MasterHasRecommended ==
    (resp.op = "getMasterPlaylist" /\ resp.statusCode = 200)
    => /\ Len(resp.content.entries) >= 1
       /\ Cardinality({i \in 1..Len(resp.content.entries) :
                          resp.content.entries[i].recommended}) = 1

\* C36: the TranscodingJob row the intake worker created for a chapter, as
\* long as it is the chapter's only row, eventually has status completed or
\* failed, given that every queue job finishes or uses up its attempts.
C36_RowReachesTerminal ==
    \A c \in Chapters :
        (tjobs[c].rows = 1)
            ~> (tjobs[c].rows > 1 \/ tjobs[c].latest.status \in {"completed", "failed"})

\* C37: while no intake message is consumed after ChapterDeletion{c} has
\* been processed, c has no Rendition row: a bitrate job of c that was
\* enqueued or running at the deletion does not create one.
C37_NoRowAfterDeletion ==
    \A c \in SeqToSet(deletions) : {r \in renditions : r.chapterId = c} = {}

\* C38: whenever the worker has started and the broker connection is up,
\* after a loss and a successful reconnect as well, the three intake queues
\* have their consumer, and a message that is in a queue while the
\* connection is up is eventually consumed.
C38_ConsumersAfterReconnect ==
    /\ []((rabbit.started /\ rabbit.connected) => rabbit.consumers = IntakeQueues)
    /\ \A n \in 1..MaxIntake :
          (rabbit.started /\ rabbit.connected /\ \E m \in iq : m.id = n) ~> (n \in acked)

(***************************************************************************)
(* C39: every message published with priority high, normal or low arrives  *)
(* in exactly one intake queue, the one of its priority: high in           *)
(* audiobook.transcode.priority, normal in audiobook.transcode.normal and  *)
(* low in audiobook.transcode.low, where the intake worker consumes it; no *)
(* priority gives a routing key without a bound queue.                     *)
(***************************************************************************)
PriorityQueue(p) == <<"audiobook.transcode.", IF p = "high" THEN "priority" ELSE p>>

C39_PriorityRouted ==
    [][\A c \in Chapters, bs \in RequestBitrates, p \in PublishPriorities :
          PublishRequest(c, bs, p) =>
              /\ Cardinality(iq' \ iq) = 1
              /\ \A m \in iq' \ iq : m.queue = PriorityQueue(p) /\ m.queue \in IntakeQueues]_vars

(***************************************************************************)
(* C40: after any sequence of cache reads, found, missing or failing,      *)
(* hits + misses = totalRequests; a GetSegment answered from the cache     *)
(* adds exactly one hit, no miss and one request; and no counter decreases *)
(* except in a step of resetStats.                                         *)
(***************************************************************************)
C40_CacheCounters ==
    /\ [](stats.hits + stats.misses = stats.totalRequests)
    /\ [][\A c \in Chapters, b \in StreamBitrates, s \in SegmentIds :
              (getSegment(c, b, s) /\ resp'.statusCode = 200 /\ ~resp'.downloaded)
              => /\ stats'.hits = stats.hits + 1
                 /\ stats'.misses = stats.misses
                 /\ stats'.totalRequests = stats.totalRequests + 1]_vars
    /\ [][resetStats \/ /\ stats'.hits >= stats.hits
                        /\ stats'.misses >= stats.misses
                        /\ stats'.totalRequests >= stats.totalRequests]_vars

\* a segment answered from the cache as the first read after a reset; the
\* read that filled the cache had counted two misses, which the reset removed
C40_Witness ==
    /\ resp.op = "getSegment"
    /\ resp.statusCode = 200
    /\ ~resp.downloaded
    /\ stats.hits = 1
    /\ stats.misses = 0
    /\ stats.totalRequests = 1
    /\ redisUp
    /\ SegmentCacheKey(resp.segmentId) \in DOMAIN cache

====
